---- MODULE Spec2Model ----
(***************************************************************************)
(* A model of thyme's reporting core: the timeline reconstruction          *)
(* (NewTimeline), the sample aggregation (NewAggTime, BarChart) and the    *)
(* window-title heuristics (Window.Info, appID).                           *)
(*                                                                         *)
(* Go strings are sequences of one-character strings, so that Split,       *)
(* TrimSpace and Join are computed and not assumed.  A Go pointer to a     *)
(* Range is the index of the Range in the list it was appended to; a Go    *)
(* map is a function whose DOMAIN is the set of keys present.              *)
(***************************************************************************)
EXTENDS Integers, Sequences, FiniteSets, TLC

\* ------------------------------------------------------------------------
\* Bounds of the model
\* ------------------------------------------------------------------------
\* longest stream
MaxSnaps == 3
\* snapshot times are drawn from 1..MaxTime
MaxTime == 2
\* most calls of Plus on one chart
MaxPlus == 3
\* Plus adds 1..MaxN
MaxN == 5

\* const maxNumberOfBars
maxNumberOfBars == 30

\* ------------------------------------------------------------------------
\* strings
\* ------------------------------------------------------------------------
WindowTitleSeparator == <<" ", "-", " ">>

\* unicode.IsSpace, for the characters the model uses
IsSpace(c) == c \in {" ", "\t", "\n", "\r"}

HasPrefixAt(s, sep, k) ==
    /\ k + Len(sep) - 1 <= Len(s)
    /\ SubSeq(s, k, k + Len(sep) - 1) = sep

\* strings.Split(s, sep) for a non-empty sep: the fields between the
\* leftmost non-overlapping occurrences of sep; start is where the current
\* field begins, k the position under examination.
RECURSIVE SplitFrom(_, _, _, _)
SplitFrom(s, sep, start, k) ==
    IF k + Len(sep) - 1 > Len(s)
    THEN << SubSeq(s, start, Len(s)) >>
    ELSE IF HasPrefixAt(s, sep, k)
         THEN << SubSeq(s, start, k - 1) >>
                 \o SplitFrom(s, sep, k + Len(sep), k + Len(sep))
         ELSE SplitFrom(s, sep, start, k + 1)

Split(s, sep) == SplitFrom(s, sep, 1, 1)

RECURSIVE TrimLeft(_)
TrimLeft(s) ==
    IF s # << >> /\ IsSpace(Head(s)) THEN TrimLeft(Tail(s)) ELSE s

RECURSIVE TrimRight(_)
TrimRight(s) ==
    IF s # << >> /\ IsSpace(s[Len(s)])
    THEN TrimRight(SubSeq(s, 1, Len(s) - 1))
    ELSE s

\* strings.TrimSpace
TrimSpace(s) == TrimRight(TrimLeft(s))

\* strings.Join
RECURSIVE Join(_, _)
Join(fields, sep) ==
    IF fields = << >> THEN << >>
    ELSE IF Len(fields) = 1 THEN fields[1]
    ELSE fields[1] \o sep \o Join(Tail(fields), sep)

\* ------------------------------------------------------------------------
\* Window, Winfo
\* ------------------------------------------------------------------------
\* a nil *Window
NilWindow == [nil |-> TRUE]

Window(id, name) == [ID |-> id, Name |-> name]

Winfo(app, subApp, title) == [App |-> app, SubApp |-> subApp, Title |-> title]

GoogleChrome ==
    <<"G","o","o","g","l","e"," ","C","h","r","o","m","e">>

Slack == <<"S","l","a","c","k">>

\* a run-time panic: the function does not return
Panic == [panic |-> TRUE]

\* fields[i] of Go (i counted from 0) is in range
IndexOK(fields, i) == 0 <= i /\ i < Len(fields)

\* fields[lo:hi] of Go is in range
SliceOK(fields, lo, hi) == 0 <= lo /\ lo <= hi /\ hi <= Len(fields)

\* Info with the fault of trying the special cases before the test
\* len(fields) > 1
InfoUnguarded(w) ==
    LET fields == Split(w.Name, WindowTitleSeparator)
        n      == Len(fields)
    IN  IF ~IndexOK(fields, 0) \/ ~IndexOK(fields, n - 1) THEN Panic
        ELSE LET first == TrimSpace(fields[1])
                 last  == TrimSpace(fields[n])
             IN  IF last = GoogleChrome
                 THEN IF ~IndexOK(fields, n - 2) \/ ~SliceOK(fields, 0, n - 2)
                      THEN Panic
                      ELSE Winfo(GoogleChrome,
                                 TrimSpace(fields[n - 1]),
                                 Join(SubSeq(fields, 1, n - 2), WindowTitleSeparator))
                 ELSE IF first = Slack
                 THEN IF ~SliceOK(fields, 1, n) THEN Panic
                      ELSE Winfo(Slack,
                                 TrimSpace(Join(SubSeq(fields, 2, n), WindowTitleSeparator)),
                                 << >>)
                 ELSE IF n > 1
                 THEN Winfo(last,
                            << >>,
                            Join(SubSeq(fields, 1, n - 1), WindowTitleSeparator))
                 ELSE Winfo(<< >>, << >>, w.Name)

\* Info with the fault of trying the Slack rule before the Google Chrome rule
InfoSlackFirst(w) ==
    LET fields == Split(w.Name, WindowTitleSeparator)
        n      == Len(fields)
    IN  IF n > 1
        THEN LET first == TrimSpace(fields[1])
                 last  == TrimSpace(fields[n])
             IN  IF first = Slack
                 THEN Winfo(Slack,
                            TrimSpace(Join(SubSeq(fields, 2, n), WindowTitleSeparator)),
                            << >>)
                 ELSE IF last = GoogleChrome
                 THEN Winfo(GoogleChrome,
                            TrimSpace(fields[n - 1]),
                            Join(SubSeq(fields, 1, n - 2), WindowTitleSeparator))
                 ELSE Winfo(last,
                            << >>,
                            Join(SubSeq(fields, 1, n - 1), WindowTitleSeparator))
        ELSE Winfo(<< >>, << >>, w.Name)

\* Info with the fault of not trimming the SubApp of a Slack window
InfoSlackUntrimmed(w) ==
    LET fields == Split(w.Name, WindowTitleSeparator)
        n      == Len(fields)
    IN  IF n > 1
        THEN LET first == TrimSpace(fields[1])
                 last  == TrimSpace(fields[n])
             IN  IF last = GoogleChrome
                 THEN Winfo(GoogleChrome,
                            TrimSpace(fields[n - 1]),
                            Join(SubSeq(fields, 1, n - 2), WindowTitleSeparator))
                 ELSE IF first = Slack
                 THEN Winfo(Slack,
                            Join(SubSeq(fields, 2, n), WindowTitleSeparator),
                            << >>)
                 ELSE Winfo(last,
                            << >>,
                            Join(SubSeq(fields, 1, n - 1), WindowTitleSeparator))
        ELSE Winfo(<< >>, << >>, w.Name)

\* Info with the fault of having no default rule: a Name that is neither a
\* Google Chrome nor a Slack Name is its own Title
InfoNoDefault(w) ==
    LET fields == Split(w.Name, WindowTitleSeparator)
        n      == Len(fields)
    IN  IF n > 1
        THEN LET first == TrimSpace(fields[1])
                 last  == TrimSpace(fields[n])
             IN  IF last = GoogleChrome
                 THEN Winfo(GoogleChrome,
                            TrimSpace(fields[n - 1]),
                            Join(SubSeq(fields, 1, n - 2), WindowTitleSeparator))
                 ELSE IF first = Slack
                 THEN Winfo(Slack,
                            TrimSpace(Join(SubSeq(fields, 2, n), WindowTitleSeparator)),
                            << >>)
                 ELSE Winfo(<< >>, << >>, w.Name)
        ELSE Winfo(<< >>, << >>, w.Name)

\* Info with the fault of taking a Name without separator for the name of
\* the application
InfoOneSegmentApp(w) ==
    LET fields == Split(w.Name, WindowTitleSeparator)
        n      == Len(fields)
    IN  IF n > 1
        THEN LET first == TrimSpace(fields[1])
                 last  == TrimSpace(fields[n])
             IN  IF last = GoogleChrome
                 THEN Winfo(GoogleChrome,
                            TrimSpace(fields[n - 1]),
                            Join(SubSeq(fields, 1, n - 2), WindowTitleSeparator))
                 ELSE IF first = Slack
                 THEN Winfo(Slack,
                            TrimSpace(Join(SubSeq(fields, 2, n), WindowTitleSeparator)),
                            << >>)
                 ELSE Winfo(last,
                            << >>,
                            Join(SubSeq(fields, 1, n - 1), WindowTitleSeparator))
        ELSE Winfo(TrimSpace(w.Name), << >>, << >>)

\* func (w *Window) Info() *Winfo: the Winfo, or Panic when an index or a
\* slice expression is out of range
Info(w) ==
    LET fields == Split(w.Name, WindowTitleSeparator)
        n      == Len(fields)
    IN  IF n > 1
        THEN IF ~IndexOK(fields, 0) \/ ~IndexOK(fields, n - 1) THEN Panic
             ELSE LET first == TrimSpace(fields[1])
                      last  == TrimSpace(fields[n])
                  IN  IF last = GoogleChrome
                      THEN IF ~IndexOK(fields, n - 2) \/ ~SliceOK(fields, 0, n - 2)
                           THEN Panic
                           ELSE Winfo(GoogleChrome,
                                      TrimSpace(fields[n - 1]),
                                      Join(SubSeq(fields, 1, n - 2), WindowTitleSeparator))
                      ELSE IF first = Slack
                      THEN IF ~SliceOK(fields, 1, n) THEN Panic
                           ELSE Winfo(Slack,
                                      TrimSpace(Join(SubSeq(fields, 2, n), WindowTitleSeparator)),
                                      << >>)
                      ELSE IF ~SliceOK(fields, 0, n - 1) THEN Panic
                           ELSE Winfo(last,
                                      << >>,
                                      Join(SubSeq(fields, 1, n - 1), WindowTitleSeparator))
        ELSE Winfo(<< >>, << >>, w.Name)

NilLabel == <<"(","n","i","l",")">>

\* appID with the fault of preferring the Title to the App
appIDTitleFirst(w) ==
    IF w = NilWindow THEN NilLabel
    ELSE IF Info(w).Title # << >> THEN Info(w).Title
    ELSE IF Info(w).App # << >> THEN Info(w).App
    ELSE IF Info(w).SubApp # << >>
         THEN Info(w).App \o <<" ",":",":"," ">> \o Info(w).SubApp
    ELSE w.Name

\* func appID(w *Window) string
appID(w) ==
    IF w = NilWindow THEN NilLabel
    ELSE IF Info(w).App # << >> THEN Info(w).App
    ELSE IF Info(w).SubApp # << >>
         THEN Info(w).App \o <<" ",":",":"," ">> \o Info(w).SubApp
    ELSE IF Info(w).Title # << >> THEN Info(w).Title
    ELSE w.Name

\* the label function of Stats' fine timeline: func(w *Window) string { return w.Name }
byName(w) == w.Name

\* the two label functions Stats passes
LabelFuncs == {"byName", "appID"}

\* labelFunc(w) panics: w.Name on a nil *Window is a nil pointer
\* dereference; appID returns "(nil)" for a nil *Window before it touches w
labelPanics(lf, w) == lf = "byName" /\ w = NilWindow

\* ------------------------------------------------------------------------
\* Snapshot, Stream: the inputs
\* ------------------------------------------------------------------------
Times == 1 .. MaxTime

\* "a"
NameA == <<"a">>

\* "b - a": another window of application "a"
NameB == <<"b", " ", "-", " ", "a">>

\* the windows that exist: two windows of one application
Window1 == Window(1, NameA)

Window2 == Window(2, NameB)

IDs == {Window1.ID, Window2.ID}

\* appID of each *Window the streams can hold, computed once
appIDOf == [w \in {NilWindow, Window1, Window2} |-> appID(w)]

\* labelFunc(w)
labelOf(lf, w) == IF lf = "appID" THEN appIDOf[w] ELSE byName(w)

\* Snapshot.Windows: the windows open at the moment of the snapshot
WindowLists == { << >>, <<Window1>>, <<Window2>>, <<Window1, Window2>> }

\* Snapshot.Visible: ids, which need not belong to a window of the snapshot
VisibleLists == { << >>, <<1>>, <<2>>, <<1, 2>> }

Snapshots ==
    [Time : Times, Windows : WindowLists, Active : IDs, Visible : VisibleLists]

\* ------------------------------------------------------------------------
\* Range, Timeline
\* ------------------------------------------------------------------------
\* &Range{Label: label, Start: t, End: t}
NewRange(label, t) == [Label |-> label, Start |-> t, End |-> t]

\* m[k] = v on a Go map
MapSet(m, k, v) == [x \in DOMAIN m \cup {k} |-> IF x = k THEN v ELSE m[x]]

\* make(map[...]...)
EmptyMap == << >>

\* windows := make(map[int64]*Window); for _, win := range snap.Windows { windows[win.ID] = win }
RECURSIVE WindowsMapFrom(_, _)
WindowsMapFrom(ws, m) ==
    IF ws = << >> THEN m
    ELSE WindowsMapFrom(Tail(ws), MapSet(m, Head(ws).ID, Head(ws)))

WindowsMap(snap) == WindowsMapFrom(snap.Windows, EmptyMap)

\* windows[id]: the window, or nil
Lookup(windows, id) == IF id \in DOMAIN windows THEN windows[id] ELSE NilWindow

\* SetEnd with the fault of writing the other field of the Range
SetEndWritesStart(list, k, t) == [list EXCEPT ![k].Start = t]

\* r.End = t for the Range at index k of list
SetEnd(list, k, t) == [list EXCEPT ![k].End = t]

\* ActiveBlock with the fault of never coalescing: a new Range is appended
\* at every snapshot with an active window
ActiveBlockAlwaysAppends(st, snap, windows, lf) ==
    LET win == Lookup(windows, snap.Active)
    IN  IF win # NilWindow
        THEN LET closed == IF st.last # 0
                           THEN SetEnd(st.list, st.last, snap.Time)
                           ELSE st.list
             IN  [list |-> Append(closed, NewRange(labelOf(lf, win), snap.Time)),
                  last |-> Len(closed) + 1]
        ELSE [st EXCEPT !.last = 0]

\* ActiveBlock with the fault of giving a snapshot without an active window
\* the empty label instead of no Range
ActiveBlockEmptyLabel(st, snap, windows, lf) ==
    LET win      == Lookup(windows, snap.Active)
        winLabel == IF win # NilWindow THEN labelOf(lf, win) ELSE << >>
    IN  IF st.last # 0 /\ st.list[st.last].Label = winLabel
        THEN [st EXCEPT !.list = SetEnd(st.list, st.last, snap.Time)]
        ELSE LET closed == IF st.last # 0
                           THEN SetEnd(st.list, st.last, snap.Time)
                           ELSE st.list
             IN  [list |-> Append(closed, NewRange(winLabel, snap.Time)),
                  last |-> Len(closed) + 1]

\* ActiveBlock with the fault of not closing the open Range at a label change
ActiveBlockNoClose(st, snap, windows, lf) ==
    LET win == Lookup(windows, snap.Active)
    IN  IF win # NilWindow
        THEN LET winLabel == labelOf(lf, win)
             IN  IF st.last # 0 /\ st.list[st.last].Label = winLabel
                 THEN [st EXCEPT !.list = SetEnd(st.list, st.last, snap.Time)]
                 ELSE [list |-> Append(st.list, NewRange(winLabel, snap.Time)),
                       last |-> Len(st.list) + 1]
        ELSE [st EXCEPT !.last = 0]

\* ActiveBlock with the fault of not extending the open Range of an
\* unchanged label
ActiveBlockNoExtend(st, snap, windows, lf) ==
    LET win == Lookup(windows, snap.Active)
    IN  IF win # NilWindow
        THEN LET winLabel == labelOf(lf, win)
             IN  IF st.last # 0 /\ st.list[st.last].Label = winLabel
                 THEN st
                 ELSE LET closed == IF st.last # 0
                                    THEN SetEnd(st.list, st.last, snap.Time)
                                    ELSE st.list
                      IN  [list |-> Append(closed, NewRange(winLabel, snap.Time)),
                           last |-> Len(closed) + 1]
        ELSE [st EXCEPT !.last = 0]

\* The Active block of NewTimeline's loop body.  st = [list, last]: the
\* active list and lastActive (0 is nil).
ActiveBlock(st, snap, windows, lf) ==
    LET win == Lookup(windows, snap.Active)
    IN  IF win # NilWindow
        THEN LET winLabel == labelOf(lf, win)
             IN  IF st.last # 0 /\ st.list[st.last].Label = winLabel
                 THEN [st EXCEPT !.list = SetEnd(st.list, st.last, snap.Time)]
                 ELSE LET closed == IF st.last # 0
                                    THEN SetEnd(st.list, st.last, snap.Time)
                                    ELSE st.list
                      IN  [list |-> Append(closed, NewRange(winLabel, snap.Time)),
                           last |-> Len(closed) + 1]
        ELSE [st EXCEPT !.last = 0]

\* ExtendOpen with the fault of extending nothing
ExtendOpenNothing(list, last, t) == list

\* ExtendOpen with the fault of extending every Range of the list, the
\* closed ones too
ExtendOpenAll(list, last, t) ==
    [k \in 1 .. Len(list) |-> [list[k] EXCEPT !.End = t]]

\* for _, prevRange := range last { prevRange.End = snap.Time }
ExtendOpen(list, last, t) ==
    [k \in 1 .. Len(list) |->
        IF \E l \in DOMAIN last : last[l] = k
        THEN [list[k] EXCEPT !.End = t]
        ELSE list[k]]

\* if existRng, exists := last[winLabel]; !exists {...} else {...}
\* st = [list, next]: the track's list and nextVisible (nextOther)
PlaceLabel(st, last, winLabel, t) ==
    IF winLabel \notin DOMAIN last
    THEN [list |-> Append(st.list, NewRange(winLabel, t)),
          next |-> MapSet(st.next, winLabel, Len(st.list) + 1)]
    ELSE [st EXCEPT !.next = MapSet(st.next, winLabel, last[winLabel])]

\* var winLabel string; if win := windows[v]; win != nil { winLabel = labelFunc(win) }
VisibleLabel(windows, v, lf) ==
    LET win == Lookup(windows, v)
    IN  IF win # NilWindow THEN labelOf(lf, win) ELSE << >>

\* for _, v := range snap.Visible { ... }
RECURSIVE VisibleLoop(_, _, _, _, _, _)
VisibleLoop(vs, st, last, windows, lf, t) ==
    IF vs = << >> THEN st
    ELSE VisibleLoop(Tail(vs),
                     PlaceLabel(st, last, VisibleLabel(windows, Head(vs), lf), t),
                     last, windows, lf, t)

\* VisibleBlock with the fault of starting nextVisible from lastVisible, so
\* that a label that left the snapshot stays open
VisibleBlockKeepsOpen(st, snap, windows, lf) ==
    LET ext == ExtendOpen(st.list, st.last, snap.Time)
        res == VisibleLoop(snap.Visible, [list |-> ext, next |-> st.last],
                           st.last, windows, lf, snap.Time)
    IN  [list |-> res.list, last |-> res.next]

\* The Visible block: st = [list, last] is (visible, lastVisible)
VisibleBlock(st, snap, windows, lf) ==
    LET ext == ExtendOpen(st.list, st.last, snap.Time)
        res == VisibleLoop(snap.Visible, [list |-> ext, next |-> EmptyMap],
                           st.last, windows, lf, snap.Time)
    IN  [list |-> res.list, last |-> res.next]

\* OtherLoop with the fault of leaving the loop after the first window
OtherLoopFirstOnly(ws, st, last, lf, t) ==
    IF ws = << >> THEN st
    ELSE PlaceLabel(st, last, labelOf(lf, Head(ws)), t)

\* for _, win := range snap.Windows { ... }
RECURSIVE OtherLoop(_, _, _, _, _)
OtherLoop(ws, st, last, lf, t) ==
    IF ws = << >> THEN st
    ELSE OtherLoop(Tail(ws), PlaceLabel(st, last, labelOf(lf, Head(ws)), t),
                   last, lf, t)

\* The All block: st = [list, last] is (other, lastOther)
OtherBlock(st, snap, lf) ==
    LET ext == ExtendOpen(st.list, st.last, snap.Time)
        res == OtherLoop(snap.Windows, [list |-> ext, next |-> EmptyMap],
                         st.last, lf, snap.Time)
    IN  [list |-> res.list, last |-> res.next]

\* var active, visible, other []*Range; var lastActive *Range;
\* var lastVisible, lastOther = make(map[string]*Range), make(map[string]*Range)
LoopInit ==
    [active  |-> [list |-> << >>, last |-> 0],
     visible |-> [list |-> << >>, last |-> EmptyMap],
     other   |-> [list |-> << >>, last |-> EmptyMap]]

\* the body of: for _, snap := range stream.Snapshots { ... }
LoopBody(st, snap, lf) ==
    LET windows == WindowsMap(snap)
    IN  [active  |-> ActiveBlock(st.active, snap, windows, lf),
         visible |-> VisibleBlock(st.visible, snap, windows, lf),
         other   |-> OtherBlock(st.other, snap, lf)]

\* the locals of NewTimeline after the first n snapshots
RECURSIVE LoopState(_, _, _)
LoopState(s, n, lf) ==
    IF n = 0 THEN LoopInit
    ELSE LoopBody(LoopState(s, n - 1, lf), s[n], lf)

\* a nil *Timeline
NilTimeline == [nil |-> TRUE]

\* NewTimeline with the fault of an off-by-one length test
NewTimelineNilOnOne(s, lf) ==
    IF Len(s) <= 1 THEN NilTimeline
    ELSE LET st == LoopState(s, Len(s), lf)
         IN  [nil   |-> FALSE,
              Start |-> s[1].Time,
              End   |-> s[Len(s)].Time,
              Rows  |-> [Active  |-> st.active.list,
                         Visible |-> st.visible.list,
                         All     |-> st.other.list]]

\* NewTimeline with the fault of taking the Timeline's End from the first
\* snapshot
NewTimelineEndOfFirst(s, lf) ==
    IF Len(s) = 0 THEN NilTimeline
    ELSE LET st == LoopState(s, Len(s), lf)
         IN  [nil   |-> FALSE,
              Start |-> s[1].Time,
              End   |-> s[1].Time,
              Rows  |-> [Active  |-> st.active.list,
                         Visible |-> st.visible.list,
                         All     |-> st.other.list]]

\* func NewTimeline(stream *Stream, labelFunc func(*Window) string) *Timeline
NewTimeline(s, lf) ==
    IF Len(s) = 0 THEN NilTimeline
    ELSE LET st == LoopState(s, Len(s), lf)
         IN  [nil   |-> FALSE,
              Start |-> s[1].Time,
              End   |-> s[Len(s)].Time,
              Rows  |-> [Active  |-> st.active.list,
                         Visible |-> st.visible.list,
                         All     |-> st.other.list]]

\* ------------------------------------------------------------------------
\* NewTimeline with the order of Go's map iteration made explicit: "range"
\* over lastVisible and lastOther visits the keys in an order that Go leaves
\* unspecified and that differs from run to run
\* ------------------------------------------------------------------------
\* the labels a map of NewTimeline can have as keys, for the windows of the
\* model: "" for a visible id without window, and the labels of the windows
KnownLabels ==
    { << >> } \cup { labelOf(lf, w) : lf \in LabelFuncs, w \in {Window1, Window2} }

\* an iteration order: a ranking of all labels; range visits the keys of a
\* map in the order of the ranking
IterationOrders ==
    { p \in [1 .. Cardinality(KnownLabels) -> KnownLabels] :
        \A x, y \in DOMAIN p : x # y => p[x] # p[y] }

InMap(m, l) == l \in DOMAIN m

\* the keys of m, as range visits them under the ranking order
VisitOrder(m, order) == SelectSeq(order, LAMBDA l : InMap(m, l))

\* ExtendOpenIn with the fault of leaving the loop after the first key
ExtendOpenInFirstOnly(list, last, t, keys) ==
    IF keys = << >> THEN list
    ELSE SetEnd(list, last[Head(keys)], t)

\* for _, prevRange := range last { prevRange.End = snap.Time }, the keys
\* visited in the order keys
RECURSIVE ExtendOpenIn(_, _, _, _)
ExtendOpenIn(list, last, t, keys) ==
    IF keys = << >> THEN list
    ELSE ExtendOpenIn(SetEnd(list, last[Head(keys)], t), last, t, Tail(keys))

\* The Visible block, under an iteration order
VisibleBlockIn(st, snap, windows, lf, order) ==
    LET ext == ExtendOpenIn(st.list, st.last, snap.Time, VisitOrder(st.last, order))
        res == VisibleLoop(snap.Visible, [list |-> ext, next |-> EmptyMap],
                           st.last, windows, lf, snap.Time)
    IN  [list |-> res.list, last |-> res.next]

\* The All block, under an iteration order
OtherBlockIn(st, snap, lf, order) ==
    LET ext == ExtendOpenIn(st.list, st.last, snap.Time, VisitOrder(st.last, order))
        res == OtherLoop(snap.Windows, [list |-> ext, next |-> EmptyMap],
                         st.last, lf, snap.Time)
    IN  [list |-> res.list, last |-> res.next]

LoopBodyIn(st, snap, lf, order) ==
    LET windows == WindowsMap(snap)
    IN  [active  |-> ActiveBlock(st.active, snap, windows, lf),
         visible |-> VisibleBlockIn(st.visible, snap, windows, lf, order),
         other   |-> OtherBlockIn(st.other, snap, lf, order)]

RECURSIVE LoopStateIn(_, _, _, _)
LoopStateIn(s, n, lf, order) ==
    IF n = 0 THEN LoopInit
    ELSE LoopBodyIn(LoopStateIn(s, n - 1, lf, order), s[n], lf, order)

\* some labelFunc(win) of NewTimeline's loop body panics: the calls for the
\* active window and for a visible id are made for a non-nil win only
BodyPanics(snap, lf) ==
    LET windows == WindowsMap(snap)
        win     == Lookup(windows, snap.Active)
    IN  \/ win # NilWindow /\ labelPanics(lf, win)
        \/ \E k \in DOMAIN snap.Visible :
              LET vwin == Lookup(windows, snap.Visible[k])
              IN  vwin # NilWindow /\ labelPanics(lf, vwin)
        \/ \E k \in DOMAIN snap.Windows : labelPanics(lf, snap.Windows[k])

\* func NewTimeline, its range loops visiting the map keys in the given order
NewTimelineIn(s, lf, order) ==
    IF Len(s) = 0 THEN NilTimeline
    ELSE IF \E n \in DOMAIN s : BodyPanics(s[n], lf) THEN Panic
    ELSE LET st == LoopStateIn(s, Len(s), lf, order)
         IN  [nil   |-> FALSE,
              Start |-> s[1].Time,
              End   |-> s[Len(s)].Time,
              Rows  |-> [Active  |-> st.active.list,
                         Visible |-> st.visible.list,
                         All     |-> st.other.list]]

\* ------------------------------------------------------------------------
\* BarChart, AggTime
\* ------------------------------------------------------------------------
\* c.Series[label]: the zero value for a missing key
Count(series, label) == IF label \in DOMAIN series THEN series[label] ELSE 0

\* Plus with the fault of storing n instead of adding it
PlusStores(series, label, n) == MapSet(series, label, n)

\* func (c *BarChart) Plus(label string, n int)
Plus(series, label, n) == MapSet(series, label, Count(series, label) + n)

\* for _, v := range snap.Visible { visible.Plus(labelFunc(windows[v]), 1) }
RECURSIVE AggVisibleLoop(_, _, _, _)
AggVisibleLoop(vs, series, windows, lf) ==
    IF vs = << >> THEN series
    ELSE AggVisibleLoop(Tail(vs),
                        Plus(series, labelOf(lf, Lookup(windows, Head(vs))), 1),
                        windows, lf)

\* for _, win := range snap.Windows { all.Plus(labelFunc(win), 1) }
RECURSIVE AggAllLoop(_, _, _)
AggAllLoop(ws, series, lf) ==
    IF ws = << >> THEN series
    ELSE AggAllLoop(Tail(ws), Plus(series, labelOf(lf, Head(ws)), 1), lf)

\* some labelFunc(windows[v]) of the loop over snap.Visible panics
RECURSIVE AggVisiblePanics(_, _, _)
AggVisiblePanics(vs, windows, lf) ==
    /\ vs # << >>
    /\ \/ labelPanics(lf, Lookup(windows, Head(vs)))
       \/ AggVisiblePanics(Tail(vs), windows, lf)

\* some labelFunc(win) of the loop over snap.Windows panics
RECURSIVE AggAllPanics(_, _)
AggAllPanics(ws, lf) ==
    /\ ws # << >>
    /\ \/ labelPanics(lf, Head(ws))
       \/ AggAllPanics(Tail(ws), lf)

\* AggBody with the fault of counting a snapshot without active window under
\* the label of the nil window
AggBodyCountsNoWindow(charts, snap, lf) ==
    LET windows == WindowsMap(snap)
        win     == Lookup(windows, snap.Active)
    IN  IF charts = Panic THEN Panic
        ELSE IF AggVisiblePanics(snap.Visible, windows, lf) THEN Panic
        ELSE [Active  |-> Plus(charts.Active,
                               IF win # NilWindow THEN labelOf(lf, win) ELSE NilLabel, 1),
              Visible |-> AggVisibleLoop(snap.Visible, charts.Visible, windows, lf),
              All     |-> AggAllLoop(snap.Windows, charts.All, lf)]

\* the body of NewAggTime's loop; charts = [Active, Visible, All], each a
\* Series, or Panic when a label function panicked
AggBody(charts, snap, lf) ==
    LET windows == WindowsMap(snap)
        win     == Lookup(windows, snap.Active)
    IN  IF charts = Panic THEN Panic
        ELSE IF win # NilWindow /\ labelPanics(lf, win) THEN Panic
        ELSE IF AggVisiblePanics(snap.Visible, windows, lf) THEN Panic
        ELSE IF AggAllPanics(snap.Windows, lf) THEN Panic
        ELSE [Active  |-> IF win # NilWindow
                          THEN Plus(charts.Active, labelOf(lf, win), 1)
                          ELSE charts.Active,
              Visible |-> AggVisibleLoop(snap.Visible, charts.Visible, windows, lf),
              All     |-> AggAllLoop(snap.Windows, charts.All, lf)]

\* func NewAggTime(stream *Stream, labelFunc func(*Window) string) *AggTime
RECURSIVE AggState(_, _, _)
AggState(s, n, lf) ==
    IF n = 0
    THEN [Active |-> EmptyMap, Visible |-> EmptyMap, All |-> EmptyMap]
    ELSE AggBody(AggState(s, n - 1, lf), s[n], lf)

NewAggTime(s, lf) == AggState(s, Len(s), lf)

\* Bar{Label: l, Count: c}
Bar(l, c) == [Label |-> l, Count |-> c]

\* Less with the comparison turned round
LessAscending(a, b) == a.Count < b.Count

\* func (s sortBars) Less(a, b int) bool, on the bars themselves
Less(a, b) == a.Count > b.Count

\* sort.Sort on a short slice is an insertion sort: x moves left past every
\* bar it is Less than (on a longer slice Go sorts otherwise, which can only
\* change the order in which bars of equal Count are left)
RECURSIVE Insert(_, _)
Insert(sorted, x) ==
    IF sorted # << >> /\ Less(x, sorted[Len(sorted)])
    THEN Append(Insert(SubSeq(sorted, 1, Len(sorted) - 1), x), sorted[Len(sorted)])
    ELSE Append(sorted, x)

RECURSIVE SortBars(_)
SortBars(bars) ==
    IF bars = << >> THEN << >>
    ELSE Insert(SortBars(SubSeq(bars, 1, Len(bars) - 1)), bars[Len(bars)])

\* the orders in which "for l, c := range c.Series" may visit the keys
RangeOrders(series) ==
    { p \in [1 .. Cardinality(DOMAIN series) -> DOMAIN series] :
        \A x, y \in DOMAIN p : x # y => p[x] # p[y] }

\* OrderedBars with the fault of cutting the list before it is sorted
OrderedBarsCutsFirst(series, p) ==
    LET bars         == [k \in DOMAIN p |-> Bar(p[k], series[p[k]])]
        numberOfBars == IF maxNumberOfBars > Len(bars) THEN Len(bars) ELSE maxNumberOfBars
    IN  SortBars(SubSeq(bars, 1, numberOfBars))

\* func (c *BarChart) OrderedBars() []Bar, when range visits the keys in order p
OrderedBars(series, p) ==
    LET bars         == [k \in DOMAIN p |-> Bar(p[k], series[p[k]])]
        s            == SortBars(bars)
        numberOfBars == IF maxNumberOfBars > Len(s) THEN Len(s) ELSE maxNumberOfBars
    IN  SubSeq(s, 1, numberOfBars)

\* ------------------------------------------------------------------------
\* The state
\* ------------------------------------------------------------------------
VARIABLES
    stream,     \* the *Stream given to Stats
    pc,         \* "Stats" before the call, "done" after it
    tlFine,     \* Stats' tlFine
    tlCoarse,   \* Stats' tlCoarse
    agg,        \* Stats' agg: the Series of the charts Active, Visible, All
    plusLog,    \* a BarChart: the calls Plus(label, n) made on it, in order
    series,     \* a BarChart: its Series
    bars,       \* a BarChart: what OrderedBars returned last, <<>> when
                \* it was not called since the last Plus
    calls,      \* the calls of NewTimeline and NewAggTime that a user of the
                \* package made on stream, each with what it returned
    segs,       \* the segments of the Name of the Window that Info is called on
    winfo,      \* what Info returned, NoWinfo before the call
    idCall,     \* a call of appID: the window it was given and its result
    visCall,    \* a call of isVisible: its arguments and its result
    snapCall,   \* a call of a Tracker's Snap: the tracker and its result
    file,       \* the file named by the -o option of track and watch
    trackLog,   \* the runs of TrackCmd.Execute so far, each with the
                \* snapshot it captured and the error it returned
    watch       \* WatchCmd.Execute: where it stands and what it returned

vars == <<stream, pc, tlFine, tlCoarse, agg, plusLog, series, bars,
          calls, segs, winfo, idCall, visCall, snapCall, file, trackLog,
          watch>>

pkgVars == <<calls, segs, winfo>>

cmdVars == <<idCall, visCall, snapCall, file, trackLog, watch>>

chartVars == <<plusLog, series, bars>>

statsVars == <<stream, pc, tlFine, tlCoarse, agg>>

NoAgg == [Active |-> EmptyMap, Visible |-> EmptyMap, All |-> EmptyMap]

NewChart ==
    /\ plusLog = << >>
    /\ series = EmptyMap
    /\ bars = << >>

NoWinfo == [nil |-> TRUE]

NoCalls == calls = << >>

NoInfo ==
    /\ segs = << >>
    /\ winfo = NoWinfo

NotCalled == [called |-> FALSE]

NoFile == [exists |-> FALSE]

NotWatching == [pc |-> "idle"]

NoCmd ==
    /\ idCall = NotCalled
    /\ visCall = NotCalled
    /\ snapCall = NotCalled
    /\ file = NoFile
    /\ trackLog = << >>
    /\ watch = NotWatching

\* Stats is given any stream of at most MaxSnaps snapshots
Init ==
    /\ \E n \in 0 .. MaxSnaps : stream \in [1 .. n -> Snapshots]
    /\ pc = "Stats"
    /\ tlFine = NilTimeline
    /\ tlCoarse = NilTimeline
    /\ agg = NoAgg
    /\ NewChart
    /\ NoCalls
    /\ NoCmd
    /\ NoInfo

\* func Stats(stream *Stream) error
Stats ==
    /\ pc = "Stats"
    /\ tlFine' = NewTimeline(stream, "byName")
    /\ tlCoarse' = NewTimeline(stream, "appID")
    /\ agg' = NewAggTime(stream, "appID")
    /\ pc' = "done"
    /\ UNCHANGED <<cmdVars, stream, chartVars, pkgVars>>

Next == Stats

Spec == Init /\ [][Next]_vars

\* ------------------------------------------------------------------------
\* Stats on longer streams of simpler snapshots: one window, which is the
\* active one when it is open, and is visible or not
\* ------------------------------------------------------------------------
LongSnapshots ==
    [Time : 1 .. MaxSnaps + 1, Windows : { << >>, <<Window1>> },
     Active : {Window1.ID}, Visible : { << >>, <<Window1.ID>> }]

InitLong ==
    /\ \E n \in 0 .. MaxSnaps + 1 : stream \in [1 .. n -> LongSnapshots]
    /\ pc = "Stats"
    /\ tlFine = NilTimeline
    /\ tlCoarse = NilTimeline
    /\ agg = NoAgg
    /\ NewChart
    /\ NoCalls
    /\ NoCmd
    /\ NoInfo

SpecLong == InitLong /\ [][Next]_vars

\* ------------------------------------------------------------------------
\* A BarChart on its own: any calls of Plus, then OrderedBars
\* ------------------------------------------------------------------------
LabelA == <<"A">>

LabelB == <<"B">>

LabelC == <<"C">>

Labels == {LabelA, LabelB, LabelC}

InitBars ==
    /\ stream = << >>
    /\ pc = "Stats"
    /\ tlFine = NilTimeline
    /\ tlCoarse = NilTimeline
    /\ agg = NoAgg
    /\ NewChart
    /\ NoCalls
    /\ NoCmd
    /\ NoInfo

CallPlus ==
    /\ Len(plusLog) < MaxPlus
    /\ \E l \in Labels, n \in 1 .. MaxN :
          /\ series' = Plus(series, l, n)
          /\ plusLog' = Append(plusLog, [label |-> l, n |-> n])
    /\ bars' = << >>
    /\ UNCHANGED <<cmdVars, statsVars, pkgVars>>

CallOrderedBars ==
    /\ \E p \in RangeOrders(series) : bars' = OrderedBars(series, p)
    /\ UNCHANGED <<cmdVars, plusLog, series, statsVars, pkgVars>>

NextBars == CallPlus \/ CallOrderedBars

SpecBars == InitBars /\ [][NextBars]_vars

\* ------------------------------------------------------------------------
\* A BarChart with about maxNumberOfBars labels: one Plus per label, then
\* OrderedBars
\* ------------------------------------------------------------------------
\* how far the number of labels goes below and above maxNumberOfBars
MaxOver == 2

\* the k-th label: k times "x"
UnaryLabel(k) == [i \in 1 .. k |-> "x"]

\* the shapes of the counts: all equal, growing with k, falling with k, and
\* two that repeat small values
Patterns == {"equal", "up", "down", "mod3", "mod5"}

CountOf(pat, k, n) ==
    CASE pat = "equal" -> 1
      [] pat = "up"    -> k
      [] pat = "down"  -> n + 1 - k
      [] pat = "mod3"  -> (k % 3) + 1
      [] pat = "mod5"  -> ((k * 7) % 5) + 1

\* the calls Plus(label, n) of a log, made one after the other
RECURSIVE PlusAll(_, _)
PlusAll(m, log) ==
    IF log = << >> THEN m
    ELSE PlusAll(Plus(m, Head(log).label, Head(log).n), Tail(log))

\* n labels are counted, one call of Plus for each
CountMany ==
    /\ plusLog = << >>
    /\ \E n \in (maxNumberOfBars - MaxOver) .. (maxNumberOfBars + MaxOver),
          pat \in Patterns :
          /\ plusLog' = [k \in 1 .. n |-> [label |-> UnaryLabel(k), n |-> CountOf(pat, k, n)]]
          /\ series' = PlusAll(series, plusLog')
    /\ bars' = << >>
    /\ UNCHANGED <<cmdVars, statsVars, pkgVars>>

\* some of the orders in which range may visit the keys of a large Series:
\* the order of the calls of Plus and its reverse, from any starting point
RotatedOrders(log) ==
    LET n == Len(log)
    IN  { [i \in 1 .. n |-> log[((i + r - 1) % n) + 1].label] : r \in 0 .. n - 1 }
        \cup { [i \in 1 .. n |-> log[n - ((i + r - 1) % n)].label] : r \in 0 .. n - 1 }

CallOrderedBarsMany ==
    /\ plusLog # << >>
    /\ \E p \in RotatedOrders(plusLog) : bars' = OrderedBars(series, p)
    /\ UNCHANGED <<cmdVars, plusLog, series, statsVars, pkgVars>>

NextTop == CountMany \/ CallOrderedBarsMany

SpecTop == InitBars /\ [][NextTop]_vars

\* ------------------------------------------------------------------------
\* Window.Info on its own: called on a Window whose Name is made of up to
\* MaxSegs segments joined by " - "
\* ------------------------------------------------------------------------
MaxSegs == 3

SegA == <<"a">>

\* a segment with blanks around it
SegPadded == <<" ", "b", " ">>

\* a hyphen that is not a separator
SegHyphen == <<"x", "-", "y">>

SlackPadded == <<" ">> \o Slack \o <<" ">>

ChromePadded == GoogleChrome \o <<" ">>

Vim == <<"V", "i", "m">>

NotesTxt == <<"n", "o", "t", "e", "s", ".", "t", "x", "t">>

Segments ==
    { << >>, SegA, SegPadded, SegHyphen, Slack, SlackPadded,
      GoogleChrome, ChromePadded, Vim, NotesTxt }

\* the Name of the Window
NameOf(ss) == Join(ss, WindowTitleSeparator)

InitInfo ==
    /\ stream = << >>
    /\ pc = "Stats"
    /\ tlFine = NilTimeline
    /\ tlCoarse = NilTimeline
    /\ agg = NoAgg
    /\ NewChart
    /\ NoCalls
    /\ NoCmd
    /\ \E n \in 1 .. MaxSegs : segs \in [1 .. n -> Segments]
    /\ winfo = NoWinfo

\* w.Info() for w = &Window{ID: 1, Name: NameOf(segs)}
CallInfo ==
    /\ winfo = NoWinfo
    /\ winfo' = Info(Window(1, NameOf(segs)))
    /\ UNCHANGED <<cmdVars, statsVars, chartVars, calls, segs>>

NextInfo == CallInfo

SpecInfo == InitInfo /\ [][NextInfo]_vars

\* ------------------------------------------------------------------------
\* appID, called on a nil *Window or on the Window that Info is called on
\* ------------------------------------------------------------------------
InitAppID == InitInfo

\* appID(w) for w = nil or w = &Window{ID: 1, Name: NameOf(segs)}
CallAppID ==
    /\ ~ idCall.called
    /\ \E w \in {NilWindow, Window(1, NameOf(segs))} :
           idCall' = [called |-> TRUE, nil |-> (w = NilWindow), label |-> appID(w)]
    /\ UNCHANGED <<visCall, snapCall, file, trackLog, watch,
                   statsVars, chartVars, pkgVars>>

NextAppID == CallInfo \/ CallAppID

SpecAppID == InitAppID /\ [][NextAppID]_vars

\* ------------------------------------------------------------------------
\* thyme track: TrackCmd.Execute, run after run, on the file of its -o option
\* ------------------------------------------------------------------------
\* the most runs of TrackCmd.Execute that are followed
MaxRuns == 3

\* a time.Time of Go: the wall clock reading, and whether it carries a
\* monotonic clock reading, as every result of time.Now() does
GoTime(t, m) == [wall |-> t, mono |-> m]

\* what a Tracker's Snap may return without error
Captures ==
    { [Time |-> GoTime(t, TRUE), Windows |-> c.ws, Active |-> c.a, Visible |-> c.vs] :
        t \in Times,
        c \in { [ws |-> <<Window1>>, a |-> Window1.ID, vs |-> <<Window1.ID>>],
                [ws |-> << >>, a |-> 0, vs |-> << >>] } }

NoSnap == [nil |-> TRUE]

\* json: a Snapshot as the encoder writes it; the Time is written as its wall
\* clock reading, without the monotonic reading
EncodeSnap(s) ==
    [Time |-> s.Time.wall, Windows |-> s.Windows, Active |-> s.Active,
     Visible |-> s.Visible]

\* json: the Snapshot that the decoder reads
DecodeSnap(j) ==
    [Time |-> GoTime(j.Time, FALSE), Windows |-> j.Windows, Active |-> j.Active,
     Visible |-> j.Visible]

\* json.NewEncoder(f).Encode(stream): the text written for stream.Snapshots
EncodeStream(snaps) == [k \in DOMAIN snaps |-> EncodeSnap(snaps[k])]

\* json.NewDecoder(f).Decode(&stream): stream.Snapshots
DecodeStream(text) == [k \in DOMAIN text |-> DecodeSnap(text[k])]

\* a file that holds the JSON text of a Stream
StreamFile(text) == [exists |-> TRUE, json |-> TRUE, text |-> text]

\* a file that holds no complete JSON value: the decoder fails on it
BrokenFile == [exists |-> TRUE, json |-> FALSE, text |-> << >>]

InitialFiles == {NoFile, BrokenFile, StreamFile(<< >>)}

\* the values of the option -o: none, or the name of the file
Outs == {"", "file"}

\* the step of Execute that the system makes fail, if it reaches it
Faults == {"none", "Snap", "Stat", "Open", "Create", "Encode"}

\* the result of Execute: the error, the file, and what was printed
Result(err, f, printed) == [err |-> err, file |-> f, printed |-> printed]

\* Execute with the fault of creating, and so truncating, the output file
\* before the snapshot is captured and the file is read
ExecuteCreatesFirst(out, f, snap, fault) ==
    IF out = ""
    THEN IF fault = "Snap" THEN Result("Snap", f, NoSnap)
         ELSE Result("nil", f, EncodeSnap(snap))
    ELSE IF fault = "Create" THEN Result("Create", f, NoSnap)
    ELSE IF fault = "Snap" THEN Result("Snap", BrokenFile, NoSnap)
    ELSE IF fault = "Stat" THEN Result("Stat", BrokenFile, NoSnap)
    ELSE IF f.exists /\ fault = "Open" THEN Result("Open", BrokenFile, NoSnap)
    ELSE IF f.exists /\ ~ f.json THEN Result("Decode", BrokenFile, NoSnap)
    ELSE LET snaps == IF f.exists THEN DecodeStream(f.text) ELSE << >>
         IN  IF fault = "Encode" THEN Result("Encode", BrokenFile, NoSnap)
             ELSE Result("nil", StreamFile(EncodeStream(Append(snaps, snap))), NoSnap)

\* Execute with the fault of not reading the file: the new snapshot replaces
\* the stored ones
ExecuteOverwrites(out, f, snap, fault) ==
    IF fault = "Snap" THEN Result("Snap", f, NoSnap)
    ELSE IF out = "" THEN Result("nil", f, EncodeSnap(snap))
    ELSE IF fault = "Create" THEN Result("Create", f, NoSnap)
    ELSE IF fault = "Encode" THEN Result("Encode", BrokenFile, NoSnap)
    ELSE Result("nil", StreamFile(EncodeStream(<<snap>>)), NoSnap)

\* func (c *TrackCmd) Execute(args []string) error, with c.Out = out, the
\* file f, snap what Snap returns if it does not fail
Execute(out, f, snap, fault) ==
    IF fault = "Snap" THEN Result("Snap", f, NoSnap)
    ELSE IF out = "" THEN Result("nil", f, EncodeSnap(snap))
    ELSE IF fault = "Stat" THEN Result("Stat", f, NoSnap)
    ELSE IF f.exists /\ fault = "Open" THEN Result("Open", f, NoSnap)
    ELSE IF f.exists /\ ~ f.json THEN Result("Decode", f, NoSnap)
    ELSE LET snaps == IF f.exists THEN DecodeStream(f.text) ELSE << >>
         IN  IF fault = "Create" THEN Result("Create", f, NoSnap)
             ELSE IF fault = "Encode" THEN Result("Encode", BrokenFile, NoSnap)
             ELSE Result("nil", StreamFile(EncodeStream(Append(snaps, snap))), NoSnap)

\* the entry of trackLog for a run
Run(out, f, snap, fault) ==
    LET res == Execute(out, f, snap, fault)
    IN  [out |-> out,
         snap |-> IF fault = "Snap" THEN NoSnap ELSE snap,
         err |-> res.err,
         before |-> f,
         after |-> res.file,
         printed |-> res.printed]

NoStats ==
    /\ stream = << >>
    /\ pc = "Stats"
    /\ tlFine = NilTimeline
    /\ tlCoarse = NilTimeline
    /\ agg = NoAgg

InitTrack ==
    /\ NoStats
    /\ NewChart
    /\ NoCalls
    /\ NoInfo
    /\ idCall = NotCalled
    /\ visCall = NotCalled
    /\ snapCall = NotCalled
    /\ file \in InitialFiles
    /\ trackLog = << >>
    /\ watch = NotWatching

\* one run of thyme track
Track ==
    /\ Len(trackLog) < MaxRuns
    /\ \E out \in Outs, snap \in Captures, fault \in Faults :
           LET run == Run(out, file, snap, fault)
           IN  /\ trackLog' = Append(trackLog, run)
               /\ file' = run.after
    /\ UNCHANGED <<idCall, visCall, snapCall, watch, statsVars, chartVars, pkgVars>>

NextTrack == Track

SpecTrack == InitTrack /\ [][NextTrack]_vars

\* ------------------------------------------------------------------------
\* thyme watch: WatchCmd.Execute
\* ------------------------------------------------------------------------
\* interval = 30 * time.Second, in seconds
DefaultInterval == 30

\* the values of the option -n, in seconds
Intervals == {-1, 0, 2}

InitWatch == InitTrack

\* WatchCmd.Execute up to the loop: the interval is set
WatchExecute ==
    /\ watch.pc = "idle"
    /\ \E out \in Outs, n \in Intervals :
           watch' = [pc |-> "track",
                     out |-> out,
                     interval |-> IF n <= 0 THEN DefaultInterval ELSE n,
                     slept |-> 0,
                     err |-> "nil"]
    /\ UNCHANGED <<idCall, visCall, snapCall, file, trackLog,
                   statsVars, chartVars, pkgVars>>

\* the track step with the fault of going on after an error
WatchTrackIgnoresError ==
    /\ watch.pc = "track"
    /\ Len(trackLog) < MaxRuns
    /\ \E snap \in Captures, fault \in Faults :
           LET run == Run(watch.out, file, snap, fault)
           IN  /\ trackLog' = Append(trackLog, run)
               /\ file' = run.after
               /\ watch' = [watch EXCEPT !.pc = "sleep"]
    /\ UNCHANGED <<idCall, visCall, snapCall, statsVars, chartVars, pkgVars>>

\* err := c.TrackCmd.Execute(args); if err != nil { return err }
WatchTrack ==
    /\ watch.pc = "track"
    /\ Len(trackLog) < MaxRuns
    /\ \E snap \in Captures, fault \in Faults :
           LET run == Run(watch.out, file, snap, fault)
           IN  /\ trackLog' = Append(trackLog, run)
               /\ file' = run.after
               /\ watch' = IF run.err # "nil"
                           THEN [watch EXCEPT !.pc = "returned", !.err = run.err]
                           ELSE [watch EXCEPT !.pc = "sleep"]
    /\ UNCHANGED <<idCall, visCall, snapCall, statsVars, chartVars, pkgVars>>

\* time.Sleep(interval), and back to the head of the loop
WatchSleep ==
    /\ watch.pc = "sleep"
    /\ watch' = [watch EXCEPT !.pc = "track", !.slept = @ + watch.interval]
    /\ UNCHANGED <<idCall, visCall, snapCall, file, trackLog,
                   statsVars, chartVars, pkgVars>>

NextWatch == WatchExecute \/ WatchTrack \/ WatchSleep

SpecWatch == InitWatch /\ [][NextWatch]_vars

\* the track step and the sleep end, and the command, once given, starts
SpecWatchFair == SpecWatch /\ WF_vars(NextWatch)

\* ------------------------------------------------------------------------
\* isVisible, called on a window rectangle and a viewport
\* ------------------------------------------------------------------------
\* the corner (px, py) lies in the viewport
InViewport(px, py, viewHeight, viewWidth) ==
    0 <= px /\ px < viewWidth /\ 0 <= py /\ py < viewHeight

\* func isVisible(x, y, w, h, viewHeight, viewWidth int) bool
isVisible(x, y, w, h, viewHeight, viewWidth) ==
    \/ InViewport(x, y, viewHeight, viewWidth)
    \/ InViewport(x + w, y, viewHeight, viewWidth)
    \/ InViewport(x, y + h, viewHeight, viewWidth)
    \/ InViewport(x + w, y + h, viewHeight, viewWidth)

\* the greatest distance of the corner (x, y) from the corner of the viewport
MaxCoord == 2

\* the greatest width and height of a window
MaxSize == 4

\* the greatest width and height of the viewport
MaxView == 2

InitVisible == InitTrack /\ file = NoFile

\* isVisible(x, y, w, h, viewHeight, viewWidth) for integers with w, h >= 0
CallIsVisible ==
    /\ ~ visCall.called
    /\ \E x, y \in -MaxCoord .. MaxCoord, w, h \in 0 .. MaxSize,
          viewHeight, viewWidth \in 1 .. MaxView :
           visCall' = [called |-> TRUE, x |-> x, y |-> y, w |-> w, h |-> h,
                       viewHeight |-> viewHeight, viewWidth |-> viewWidth,
                       result |-> isVisible(x, y, w, h, viewHeight, viewWidth)]
    /\ UNCHANGED <<idCall, snapCall, file, trackLog, watch,
                   statsVars, chartVars, pkgVars>>

NextVisible == CallIsVisible

SpecVisible == InitVisible /\ [][NextVisible]_vars

\* ------------------------------------------------------------------------
\* The trackers: Snap of LinuxTracker, WindowsTracker and DarwinTracker, on
\* what the commands and system calls they run report
\* ------------------------------------------------------------------------
\* the most lines of wmctrl, and the most windows that EnumWindows visits
MaxLines == 2

Desktop == <<"D", "e", "s", "k", "t", "o", "p">>

\* var systemNames
systemNames ==
    { <<"X", "d", "n", "d", "C", "o", "l", "l", "e", "c", "t", "i", "o", "n", "W", "i", "n", "d", "o", "w", "I", "m", "p">>,
      <<"u", "n", "i", "t", "y", "-", "l", "a", "u", "n", "c", "h", "e", "r">>,
      <<"u", "n", "i", "t", "y", "-", "p", "a", "n", "e", "l">>,
      <<"u", "n", "i", "t", "y", "-", "d", "a", "s", "h">>,
      <<"H", "u", "d">>,
      <<"D", "e", "s", "k", "t", "o", "p">> }

\* func (w *Window) IsSystem() bool
IsSystem(w) == w.Name \in systemNames

\* the result of Snap: (snap, nil), or (nil, err)
Snapped(snap) == [err |-> FALSE, snap |-> snap]

SnapFailed == [err |-> TRUE, snap |-> NoSnap]

\* time.Now()
Now == { GoTime(t, TRUE) : t \in Times }

\* sequences of at most MaxLines elements of S
UpToMaxLines(S) == UNION { [1 .. n -> S] : n \in 0 .. MaxLines }

\* what xwininfo reports of a window: within the largest viewport's corner,
\* around every viewport, and outside every viewport
Geometries ==
    { [x |-> 0, y |-> 0, w |-> 1, h |-> 1],
      [x |-> -1, y |-> -1, w |-> MaxView + 2, h |-> MaxView + 2],
      [x |-> MaxView, y |-> MaxView, w |-> 1, h |-> 1] }

\* a line of wmctrl -l, with what xwininfo reports of its window; a short
\* line has fewer than four fields
WmctrlLines ==
    [id : IDs, name : {NameA, Desktop}, short : BOOLEAN, geom : Geometries]

\* the commands that LinuxTracker.Snap runs
LinuxCommands == {"xdpyinfo", "wmctrl", "xwininfo", "xdotool"}

\* for _, line := range lines { ... windows = append(windows, &w) }
RECURSIVE LinuxWindows(_)
LinuxWindows(lines) ==
    IF lines = << >> THEN << >>
    ELSE LET line == Head(lines)
             w    == Window(line.id, line.name)
         IN  IF line.short \/ IsSystem(w) THEN LinuxWindows(Tail(lines))
             ELSE <<w>> \o LinuxWindows(Tail(lines))

\* for _, window := range windows { ... visible = append(visible, window.ID) }
RECURSIVE LinuxVisible(_, _, _)
LinuxVisible(lines, viewHeight, viewWidth) ==
    IF lines = << >> THEN << >>
    ELSE LET line == Head(lines)
             g    == line.geom
             rest == LinuxVisible(Tail(lines), viewHeight, viewWidth)
         IN  IF line.short \/ IsSystem(Window(line.id, line.name)) THEN rest
             ELSE IF isVisible(g.x, g.y, g.w, g.h, viewHeight, viewWidth)
                  THEN <<line.id>> \o rest
                  ELSE rest

\* func (t *LinuxTracker) Snap() (*Snapshot, error); failed is the command
\* that fails, if Snap runs it
LinuxSnapOf(viewHeight, viewWidth, lines, active, now, failed) ==
    LET windows == LinuxWindows(lines)
    IN  IF failed \in {"xdpyinfo", "wmctrl", "xdotool"} THEN SnapFailed
        ELSE IF failed = "xwininfo" /\ windows # << >> THEN SnapFailed
        ELSE Snapped([Time |-> now, Windows |-> windows, Active |-> active,
                      Visible |-> LinuxVisible(lines, viewHeight, viewWidth)])

\* var windowsIgnoreList: one of its titles
DefaultIME == <<"D", "e", "f", "a", "u", "l", "t", " ", "I", "M", "E">>

\* func windowsIgnore(title string) bool
windowsIgnore(title) == title = << >> \/ title = DefaultIME

\* a handle that EnumWindows passes to the callback: what IsWindow,
\* GetWindowText, GetWindowThreadProcessId and IsWindowVisible report of it
Handles ==
    [isWindow : BOOLEAN, title : {<< >>, NameA, DefaultIME}, id : IDs,
     visible : BOOLEAN]

\* the callback of EnumWindows on handle hwnd; st = [all, visible, active]
WindowsCallback(st, hwnd, activeTitle) ==
    IF ~ hwnd.isWindow THEN st
    ELSE IF \E k \in DOMAIN st.visible : st.visible[k] = hwnd.id THEN st
    ELSE IF windowsIgnore(hwnd.title) THEN st
    ELSE [all |-> Append(st.all, Window(hwnd.id, hwnd.title)),
          visible |-> IF hwnd.visible THEN Append(st.visible, hwnd.id)
                      ELSE st.visible,
          active |-> IF activeTitle = hwnd.title THEN hwnd.id ELSE st.active]

\* procEnumWindows.Call(cb, cbId)
RECURSIVE EnumWindows(_, _, _)
EnumWindows(st, hwnds, activeTitle) ==
    IF hwnds = << >> THEN st
    ELSE EnumWindows(WindowsCallback(st, Head(hwnds), activeTitle),
                     Tail(hwnds), activeTitle)

\* func (t *WindowsTracker) Snap() (snap *Snapshot, err error)
WindowsSnapOf(hwnds, activeTitle, now) ==
    LET st == EnumWindows([all |-> << >>, visible |-> << >>, active |-> 0],
                          hwnds, activeTitle)
    IN  Snapped([Time |-> now, Windows |-> st.all, Active |-> st.active,
                 Visible |-> st.visible])

\* type process struct: two processes
Proc1 == [name |-> <<"p">>, id |-> 11]

Proc2 == [name |-> <<"q">>, id |-> 12]

Procs == {Proc1, Proc2}

\* what runAS returns: a map from some processes to the windows of each
ScriptResults(winLists) == UNION { [S -> winLists] : S \in SUBSET Procs }

\* runAS(allWindowsScript): a process has no window or one with an id
AllResults == ScriptResults({ << >>, <<Window1>> })

\* runAS(activeWindowsScript)
ActiveResults == ScriptResults({ << >>, <<Window1>>, <<Window1, Window2>> })

\* runAS(visibleWindowsScript): the windows have names and the id -1
VisibleResults ==
    ScriptResults({ << >>, <<Window(-1, NameA)>>, <<Window(-1, NameB)>> })

\* the orders in which a range loop may visit the keys of a map
ProcOrders(m) ==
    { o \in [1 .. Cardinality(DOMAIN m) -> DOMAIN m] :
        \A i, j \in DOMAIN o : o[i] = o[j] => i = j }

\* for proc, wins := range procWins { ... allWindows = append(...) }
RECURSIVE DarwinAllWindows(_, _)
DarwinAllWindows(procWins, order) ==
    IF order = << >> THEN << >>
    ELSE LET proc == Head(order)
             wins == procWins[proc]
         IN  (IF Len(wins) = 0 THEN <<Window(proc.id, proc.name)>> ELSE wins)
             \o DarwinAllWindows(procWins, Tail(order))

\* allWins := allProcWins[proc]: nil when the map has no such key
AllWinsOf(allProcWins, proc) ==
    IF proc \in DOMAIN allProcWins THEN allProcWins[proc] ELSE << >>

\* for _, visWin := range wins { ... }: the ids appended to visible
RECURSIVE DarwinVisibleOf(_, _, _)
DarwinVisibleOf(proc, wins, allWins) ==
    IF wins = << >> THEN << >>
    ELSE LET visWin == Head(wins)
             rest   == DarwinVisibleOf(proc, Tail(wins), allWins)
             found  == { k \in DOMAIN allWins : allWins[k].Name = visWin.Name }
         IN  IF Len(allWins) = 0 THEN <<proc.id>> \o rest
             ELSE IF found # {}
                  THEN <<allWins[CHOOSE k \in found : \A j \in found : k <= j].ID>> \o rest
                  ELSE rest

\* for proc, wins := range procWins { allWins := allProcWins[proc]; ... }
RECURSIVE DarwinVisible(_, _, _)
DarwinVisible(procWins, allProcWins, order) ==
    IF order = << >> THEN << >>
    ELSE LET proc == Head(order)
         IN  DarwinVisibleOf(proc, procWins[proc], AllWinsOf(allProcWins, proc))
             \o DarwinVisible(procWins, allProcWins, Tail(order))

\* the scripts that DarwinTracker.Snap runs
DarwinScripts == {"allWindowsScript", "activeWindowsScript", "visibleWindowsScript"}

\* the active block fails: more than one process, or more than one window
DarwinActiveFails(procWins) ==
    \/ Cardinality(DOMAIN procWins) > 1
    \/ \E proc \in DOMAIN procWins : Len(procWins[proc]) > 1

\* for proc, wins := range procWins { active = ... }
DarwinActive(procWins) ==
    IF DOMAIN procWins = {} THEN 0
    ELSE LET proc == CHOOSE p \in DOMAIN procWins : TRUE
         IN  IF Len(procWins[proc]) = 0 THEN proc.id ELSE procWins[proc][1].ID

\* func (t *DarwinTracker) Snap() (*Snapshot, error); failed is the script
\* that fails, if any
DarwinSnapOf(all, allOrder, act, vis, visOrder, now, failed) ==
    IF failed \in DarwinScripts THEN SnapFailed
    ELSE IF DarwinActiveFails(act) THEN SnapFailed
    ELSE Snapped([Time |-> now,
                  Windows |-> DarwinAllWindows(all, allOrder),
                  Active |-> DarwinActive(act),
                  Visible |-> DarwinVisible(vis, all, visOrder)])

InitSnap == InitTrack /\ file = NoFile

\* Snap of the LinuxTracker
LinuxSnap ==
    /\ ~ snapCall.called
    /\ \E viewHeight, viewWidth \in 1 .. MaxView, lines \in UpToMaxLines(WmctrlLines),
          active \in IDs \cup {0}, now \in Now, failed \in LinuxCommands \cup {"none"} :
           snapCall' = [called |-> TRUE, tracker |-> "linux",
                        result |-> LinuxSnapOf(viewHeight, viewWidth, lines,
                                               active, now, failed)]
    /\ UNCHANGED <<idCall, visCall, file, trackLog, watch,
                   statsVars, chartVars, pkgVars>>

\* Snap of the WindowsTracker
WindowsSnap ==
    /\ ~ snapCall.called
    /\ \E hwnds \in UpToMaxLines(Handles), activeTitle \in {<< >>, NameA, DefaultIME},
          now \in Now :
           snapCall' = [called |-> TRUE, tracker |-> "windows",
                        result |-> WindowsSnapOf(hwnds, activeTitle, now)]
    /\ UNCHANGED <<idCall, visCall, file, trackLog, watch,
                   statsVars, chartVars, pkgVars>>

\* Snap of the DarwinTracker
DarwinSnap ==
    /\ ~ snapCall.called
    /\ \E all \in AllResults, act \in ActiveResults, vis \in VisibleResults,
          now \in Now, failed \in DarwinScripts \cup {"none"} :
         \E allOrder \in ProcOrders(all), visOrder \in ProcOrders(vis) :
           snapCall' = [called |-> TRUE, tracker |-> "darwin",
                        result |-> DarwinSnapOf(all, allOrder, act, vis, visOrder,
                                                now, failed)]
    /\ UNCHANGED <<idCall, visCall, file, trackLog, watch,
                   statsVars, chartVars, pkgVars>>

NextSnap == LinuxSnap \/ WindowsSnap \/ DarwinSnap

SpecSnap == InitSnap /\ [][NextSnap]_vars

\* ------------------------------------------------------------------------
\* A user of the package: calls of the exported NewTimeline and NewAggTime
\* on one stream, with either label function
\* ------------------------------------------------------------------------
\* how many calls are followed
MaxCalls == 2

InitCalls ==
    /\ \E n \in 0 .. MaxSnaps - 1 : stream \in [1 .. n -> Snapshots]
    /\ pc = "Stats"
    /\ tlFine = NilTimeline
    /\ tlCoarse = NilTimeline
    /\ agg = NoAgg
    /\ NewChart
    /\ NoCalls
    /\ NoCmd
    /\ NoInfo

\* NewTimeline(stream, labelFunc), under some iteration order of the maps
CallNewTimeline ==
    /\ Len(calls) < MaxCalls
    /\ \E lf \in LabelFuncs, order \in IterationOrders :
          calls' = Append(calls, [fn     |-> "NewTimeline",
                                  lf     |-> lf,
                                  order  |-> order,
                                  result |-> NewTimelineIn(stream, lf, order)])
    /\ UNCHANGED <<cmdVars, statsVars, chartVars, segs, winfo>>

\* NewAggTime(stream, labelFunc)
CallNewAggTime ==
    /\ Len(calls) < MaxCalls
    /\ \E lf \in LabelFuncs :
          calls' = Append(calls, [fn     |-> "NewAggTime",
                                  lf     |-> lf,
                                  result |-> NewAggTime(stream, lf)])
    /\ UNCHANGED <<cmdVars, statsVars, chartVars, segs, winfo>>

NextCalls == CallNewTimeline \/ CallNewAggTime

SpecCalls == InitCalls /\ [][NextCalls]_vars

\* ------------------------------------------------------------------------
\* What the stream holds, read off the snapshots themselves
\* ------------------------------------------------------------------------
Done == pc = "done"

\* the timeline Stats built with label function lf
TimelineOf(lf) == IF lf = "byName" THEN tlFine ELSE tlCoarse

Elements(seq) == { seq[k] : k \in DOMAIN seq }

\* snapshot snap has a window with this id
Resolves(snap, id) == \E w \in Elements(snap.Windows) : w.ID = id

\* that window
WindowWithID(snap, id) == CHOOSE w \in Elements(snap.Windows) : w.ID = id

\* the label of the active window of snapshot n (when it resolves)
ActiveLabelAt(n, lf) == labelOf(lf, WindowWithID(stream[n], stream[n].Active))

\* the visible label set of snapshot n: an id without a window counts as ""
VisibleLabelsAt(n, lf) ==
    { IF Resolves(stream[n], v)
      THEN labelOf(lf, WindowWithID(stream[n], v))
      ELSE << >> : v \in Elements(stream[n].Visible) }

\* the all-open label set of snapshot n
AllLabelsAt(n, lf) == { labelOf(lf, w) : w \in Elements(stream[n].Windows) }

Tracks == {"Visible", "All"}

LabelsAt(track, n, lf) ==
    IF track = "Visible" THEN VisibleLabelsAt(n, lf) ELSE AllLabelsAt(n, lf)

\* the windows a track of snapshot n is built from: the windows of the
\* Visible ids that have one, or all the windows
WindowsAt(track, n) ==
    IF track = "Visible"
    THEN { w \in Elements(stream[n].Windows) :
             \E v \in Elements(stream[n].Visible) : w.ID = v }
    ELSE Elements(stream[n].Windows)

\* the labels that two or more of these windows resolve to
SharedLabelsAt(track, n, lf) ==
    { labelOf(lf, w) : w \in
        { w1 \in WindowsAt(track, n) :
            \E w2 \in WindowsAt(track, n) :
                w2 # w1 /\ labelOf(lf, w2) = labelOf(lf, w1) } }

TimeAt(n) == stream[n].Time

NonDecreasing == \A n \in 1 .. Len(stream) - 1 : TimeAt(n) <= TimeAt(n + 1)

StrictlyIncreasing == \A n \in 1 .. Len(stream) - 1 : TimeAt(n) < TimeAt(n + 1)

\* the list of a track after the first n snapshots
ListAfter(track, n, lf) ==
    LET st == LoopState(stream, n, lf)
    IN  IF track = "Active" THEN st.active.list
        ELSE IF track = "Visible" THEN st.visible.list
        ELSE st.other.list

\* the number of Ranges with label l that snapshot n appended to a track
AddedCount(track, n, lf, l) ==
    LET before == ListAfter(track, n - 1, lf)
        after  == ListAfter(track, n, lf)
    IN  Cardinality({ k \in Len(before) + 1 .. Len(after) : after[k].Label = l })

\* the snapshot that appended the k-th Range of a track
StartSnap(track, k, lf) ==
    CHOOSE n \in 1 .. Len(stream) :
        /\ Len(ListAfter(track, n, lf)) >= k
        /\ Len(ListAfter(track, n - 1, lf)) < k

\* snapshots i..j are a maximal run of consecutive snapshots holding label l
MaximalRun(track, i, j, lf, l) ==
    /\ i <= j
    /\ \A n \in i .. j : l \in LabelsAt(track, n, lf)
    /\ i = 1 \/ l \notin LabelsAt(track, i - 1, lf)
    /\ j = Len(stream) \/ l \notin LabelsAt(track, j + 1, lf)

\* ------------------------------------------------------------------------
\* Claims
\* ------------------------------------------------------------------------

\* C1: in the Visible and All tracks, a snapshot in which two or more
\* windows resolve to one label appends at most one Range with that label.
C1_AtMostOneRangePerLabel ==
    Done =>
        \A lf \in LabelFuncs, track \in Tracks, n \in 1 .. Len(stream) :
            \A l \in SharedLabelsAt(track, n, lf) : AddedCount(track, n, lf, l) <= 1

C3_RunEndsAtLastPresent ==
    Done =>
        \A lf \in LabelFuncs, track \in Tracks :
            \A i, j \in 1 .. Len(stream) :
                \A l \in LabelsAt(track, i, lf) :
                    MaximalRun(track, i, j, lf, l) =>
                        \E r \in Elements(TimelineOf(lf).Rows[track]) :
                            /\ r.Label = l
                            /\ r.Start = TimeAt(i)
                            /\ r.End = TimeAt(j)

\* C3, amended: the Range of a maximal run i..j starts at time(i) and ends at
\* the time of snapshot j+1, the first snapshot without the label; it ends at
\* time(j) only when j is the last snapshot of the stream.
C3_RunEndsAtNextSnapshot ==
    Done =>
        \A lf \in LabelFuncs, track \in Tracks :
            \A i, j \in 1 .. Len(stream) :
                \A l \in LabelsAt(track, i, lf) :
                    MaximalRun(track, i, j, lf, l) =>
                        \E r \in Elements(TimelineOf(lf).Rows[track]) :
                            /\ r.Label = l
                            /\ r.Start = TimeAt(i)
                            /\ r.End = TimeAt(IF j < Len(stream) THEN j + 1 ELSE j)

\* C3, the case: a visible label present in snapshot 1 only, and a second
\* snapshot at a later time.
C3_Witness ==
    /\ Done
    /\ Len(stream) >= 2
    /\ TimeAt(1) < TimeAt(2)
    /\ MaximalRun("Visible", 1, 1, "byName", NameA)
    /\ \E r \in Elements(tlFine.Rows.Visible) :
          r = [Label |-> NameA, Start |-> TimeAt(1), End |-> TimeAt(2)]

\* the call of Plus that first counted label l
FirstPlus(l) ==
    CHOOSE k \in DOMAIN plusLog :
        /\ plusLog[k].label = l
        /\ \A j \in 1 .. k - 1 : plusLog[j].label # l

\* the Series {A:5, B:5, C:3}
ExampleSeries == (LabelA :> 5) @@ (LabelB :> 5) @@ (LabelC :> 3)

\* C4 as stated: OrderedBars places labels with equal counts in the order in
\* which Plus first counted them, on every call.
C4_TiesInFirstSeenOrder ==
    \A j, k \in DOMAIN bars :
        (j < k /\ bars[j].Count = bars[k].Count) =>
            FirstPlus(bars[j].Label) < FirstPlus(bars[k].Label)

\* C4, amended: OrderedBars returns every label of the Series once, with its
\* count, in non-increasing order of count; nothing more is fixed for labels
\* with equal counts.  For {A:5, B:5, C:3} the top 2 are A and B, in either
\* order.
C4_OrderedByCountOnly ==
    bars # << >> =>
        /\ \A j, k \in DOMAIN bars : j < k => bars[j].Count >= bars[k].Count
        /\ \A j, k \in DOMAIN bars : j # k => bars[j].Label # bars[k].Label
        /\ { bars[k].Label : k \in DOMAIN bars } \subseteq DOMAIN series
        /\ Len(bars) = IF Cardinality(DOMAIN series) < maxNumberOfBars
                       THEN Cardinality(DOMAIN series)
                       ELSE maxNumberOfBars
        /\ \A k \in DOMAIN bars : bars[k].Count = series[bars[k].Label]
        /\ series = ExampleSeries =>
              /\ {bars[1].Label, bars[2].Label} = {LabelA, LabelB}
              /\ bars[3].Label = LabelC

\* C4, the case: counts {A:5, B:5, C:3}, A counted before B, and a call of
\* OrderedBars that returned B before A.
C4_Witness ==
    /\ series = ExampleSeries
    /\ FirstPlus(LabelA) < FirstPlus(LabelB)
    /\ bars = << Bar(LabelB, 5), Bar(LabelA, 5), Bar(LabelC, 3) >>

LastResolvedBefore(n) ==
    CHOOSE m \in 1 .. n - 1 :
        /\ Resolves(stream[m], stream[m].Active)
        /\ \A j \in m + 1 .. n - 1 : ~Resolves(stream[j], stream[j].Active)

C7_ConstantLabelOneRange ==
    (Done /\ Len(stream) >= 1) =>
        \A lf \in LabelFuncs :
            (\A n \in 1 .. Len(stream) :
                /\ Resolves(stream[n], stream[n].Active)
                /\ ActiveLabelAt(n, lf) = ActiveLabelAt(1, lf)) =>
                TimelineOf(lf).Rows.Active =
                    << [Label |-> ActiveLabelAt(1, lf),
                        Start |-> TimeAt(1),
                        End   |-> TimeAt(Len(stream))] >>

\* C7, the case: three snapshots, the active window changes but its
\* application does not, and the coarse timeline has one Range over them.
C7_Witness ==
    /\ Done
    /\ Len(stream) = 3
    /\ \A n \in 1 .. 3 : Resolves(stream[n], stream[n].Active)
    /\ stream[1].Active # stream[2].Active
    /\ TimeAt(1) < TimeAt(3)
    /\ Len(tlCoarse.Rows.Active) = 1
    /\ tlCoarse.Rows.Active[1].Start = TimeAt(1)
    /\ tlCoarse.Rows.Active[1].End = TimeAt(3)

\* label l is visible in snapshots i and i+2 and not in snapshot i+1
Churn(i, lf, l) ==
    /\ i + 2 <= Len(stream)
    /\ l \in VisibleLabelsAt(i, lf)
    /\ l \notin VisibleLabelsAt(i + 1, lf)
    /\ l \in VisibleLabelsAt(i + 2, lf)

Covers(r, t) == r.Start <= t /\ t <= r.End

\* the first snapshot of the run of snapshots with label l that ends at i
RunStart(track, i, lf, l) ==
    CHOOSE i0 \in 1 .. i :
        /\ \A n \in i0 .. i : l \in LabelsAt(track, n, lf)
        /\ i0 = 1 \/ l \notin LabelsAt(track, i0 - 1, lf)

\* C8 as stated, for streams with strictly increasing times: a label visible
\* in snapshots i and i+2 and not in i+1 has two distinct Ranges in the
\* Visible list, one that starts at time(i) and one that starts at time(i+2),
\* and no Range with the label covers both times.
C8_ChurnTwoRanges ==
    (Done /\ StrictlyIncreasing) =>
        \A lf \in LabelFuncs, i \in 1 .. Len(stream) :
            \A l \in VisibleLabelsAt(i, lf) :
                Churn(i, lf, l) =>
                    LET v == TimelineOf(lf).Rows.Visible
                    IN  /\ \E j, k \in DOMAIN v :
                              /\ j # k
                              /\ v[j].Label = l /\ v[j].Start = TimeAt(i)
                              /\ v[k].Label = l /\ v[k].Start = TimeAt(i + 2)
                        /\ ~ \E r \in Elements(v) :
                              /\ r.Label = l
                              /\ Covers(r, TimeAt(i))
                              /\ Covers(r, TimeAt(i + 2))

\* C8, amended: the two distinct Ranges are one from the start of the run of
\* snapshots with the label that ends at i (time(i) only when the label is not
\* in snapshot i-1) to time(i+1), and one that starts at time(i+2); no Range
\* with the label covers both time(i) and time(i+2) when the times are
\* non-decreasing and time(i+1) < time(i+2).
C8_ChurnTwoRangesByRun ==
    Done =>
        \A lf \in LabelFuncs, i \in 1 .. Len(stream) :
            \A l \in VisibleLabelsAt(i, lf) :
                Churn(i, lf, l) =>
                    LET v == TimelineOf(lf).Rows.Visible
                    IN  /\ \E j, k \in DOMAIN v :
                              /\ j # k
                              /\ v[j] = [Label |-> l,
                                         Start |-> TimeAt(RunStart("Visible", i, lf, l)),
                                         End   |-> TimeAt(i + 1)]
                              /\ v[k].Label = l /\ v[k].Start = TimeAt(i + 2)
                        /\ (NonDecreasing /\ TimeAt(i + 1) < TimeAt(i + 2)) =>
                              ~ \E r \in Elements(v) :
                                  /\ r.Label = l
                                  /\ Covers(r, TimeAt(i))
                                  /\ Covers(r, TimeAt(i + 2))

\* C8, the case: the window is visible in snapshots 1 and 2, hidden in 3 and
\* visible again in 4, at four different times.
C8_Witness ==
    /\ Done
    /\ StrictlyIncreasing
    /\ Len(stream) = 4
    /\ Churn(2, "byName", NameA)
    /\ RunStart("Visible", 2, "byName", NameA) = 1
    /\ tlFine.Rows.Visible =
          << [Label |-> NameA, Start |-> TimeAt(1), End |-> TimeAt(3)],
             [Label |-> NameA, Start |-> TimeAt(4), End |-> TimeAt(4)] >>

\* C9: NewTimeline returns nil exactly for the stream without snapshots, and
\* otherwise a Timeline with the rows Active, Visible and All.
C9_NilIffEmpty ==
    Done =>
        \A lf \in LabelFuncs :
            /\ TimelineOf(lf) = NilTimeline <=> Len(stream) = 0
            /\ Len(stream) >= 1 =>
                  /\ TimelineOf(lf).nil = FALSE
                  /\ DOMAIN TimelineOf(lf).Rows = {"Active", "Visible", "All"}

\* C9, the case: one snapshot without windows and without visible ids gives
\* a Timeline, with three empty rows.
C9_Witness ==
    /\ Done
    /\ Len(stream) = 1
    /\ tlFine # NilTimeline
    /\ tlCoarse # NilTimeline
    /\ tlFine.Rows = [Active |-> << >>, Visible |-> << >>, All |-> << >>]

AllTracks == {"Active", "Visible", "All"}

\* C10: when the snapshot times are non-decreasing, every Range of every
\* track has Start <= End.
C10_StartNotAfterEnd ==
    (Done /\ NonDecreasing) =>
        \A lf \in LabelFuncs :
            TimelineOf(lf) # NilTimeline =>
                \A track \in AllTracks :
                    \A r \in Elements(TimelineOf(lf).Rows[track]) : r.Start <= r.End

\* C10, the case: non-decreasing times and, in every track, a Range that
\* lasts.
C10_Witness ==
    /\ Done
    /\ Len(stream) >= 2
    /\ NonDecreasing
    /\ \A track \in AllTracks :
          \E r \in Elements(tlFine.Rows[track]) : r.Start < r.End

\* ------------------------------------------------------------------------
\* C11
\* ------------------------------------------------------------------------
\* C11: for a stream with at least one snapshot, the Timeline's Start is the
\* time of the first snapshot and its End the time of the last, whatever the
\* tracks hold.
C11_BoundsAreFirstAndLast ==
    (Done /\ Len(stream) >= 1) =>
        \A lf \in LabelFuncs :
            /\ TimelineOf(lf) # NilTimeline
            /\ TimelineOf(lf).Start = TimeAt(1)
            /\ TimelineOf(lf).End = TimeAt(Len(stream))

\* C11, the case: snapshots at two different times, no window open in any of
\* them, so that the three tracks are empty and the bounds come from the
\* snapshots alone.
C11_Witness ==
    /\ Done
    /\ Len(stream) = MaxSnaps
    /\ TimeAt(1) < TimeAt(Len(stream))
    /\ \A n \in 1 .. Len(stream) : stream[n].Windows = << >> /\ stream[n].Visible = << >>
    /\ tlFine.Rows = [Active |-> << >>, Visible |-> << >>, All |-> << >>]
    /\ tlFine.Start = TimeAt(1)
    /\ tlFine.End = TimeAt(Len(stream))

\* ------------------------------------------------------------------------
\* C12
\* ------------------------------------------------------------------------
TimelineCalls == { c \in Elements(calls) : c.fn = "NewTimeline" }

\* the map of open Ranges of a track has two keys or more before the last
\* snapshot is processed, so that the iteration order has a choice
TwoOpenBefore(track, n, lf) ==
    LET st == LoopState(stream, n - 1, lf)
    IN  Cardinality(DOMAIN (IF track = "Visible" THEN st.visible.last
                                                 ELSE st.other.last)) >= 2

\* C12: two runs of NewTimeline on the same stream with the same label
\* function return equal results (bounds, and per track the same Ranges in
\* the same order), whatever the orders in which the two runs iterate over
\* the maps of open Ranges.
C12_RunsAgree ==
    \A c, d \in TimelineCalls :
        c.lf = d.lf => c.result = d.result

\* C12, the case: two runs with the same label function that visited the keys
\* in different orders, on a stream whose second snapshot finds two Ranges
\* open in the Visible track and in the All track.
C12_Witness ==
    /\ Len(calls) = 2
    /\ calls[1].fn = "NewTimeline" /\ calls[2].fn = "NewTimeline"
    /\ calls[1].lf = "byName" /\ calls[2].lf = "byName"
    /\ Len(stream) = 2
    /\ TwoOpenBefore("Visible", 2, "byName")
    /\ TwoOpenBefore("All", 2, "byName")
    /\ VisitOrder(LoopState(stream, 1, "byName").visible.last, calls[1].order)
         # VisitOrder(LoopState(stream, 1, "byName").visible.last, calls[2].order)
    /\ TimeAt(1) < TimeAt(2)
    /\ calls[1].result = calls[2].result
    /\ calls[1].result # NilTimeline

\* ------------------------------------------------------------------------
\* C13
\* ------------------------------------------------------------------------
\* some Active or Visible id of the stream matches no window of its snapshot
SomeIdUnresolved ==
    \E n \in 1 .. Len(stream) :
        \/ ~Resolves(stream[n], stream[n].Active)
        \/ \E k \in DOMAIN stream[n].Visible :
              ~Resolves(stream[n], stream[n].Visible[k])

\* C13: on a stream in which an Active or a Visible id matches no window,
\* NewTimeline and NewAggTime return a result, without failing, with either
\* label function (the raw window Name, or appID).
C13_NoCallFails ==
    SomeIdUnresolved =>
        \A c \in Elements(calls) : c.result # Panic

\* C13, the part that holds: NewTimeline with either label function, and
\* NewAggTime with appID, return a result on every stream.
C13_GuardedCallsReturn ==
    \A c \in Elements(calls) :
        (c.fn = "NewTimeline" \/ c.lf = "appID") => c.result # Panic

\* C13, the case of the part that holds: a snapshot whose Active id and
\* whose Visible id match no window, NewTimeline called with the raw Name
\* and NewAggTime with appID; the visible id has a Range with the empty
\* label and is counted under "(nil)".
C13_Witness ==
    /\ Len(stream) = 1
    /\ stream[1].Windows = << >>
    /\ stream[1].Visible = <<Window1.ID>>
    /\ Len(calls) = 2
    /\ calls[1].fn = "NewTimeline" /\ calls[1].lf = "byName"
    /\ calls[1].result # Panic
    /\ calls[1].result.Rows.Visible = << NewRange(<< >>, TimeAt(1)) >>
    /\ calls[1].result.Rows.Active = << >>
    /\ calls[2].fn = "NewAggTime" /\ calls[2].lf = "appID"
    /\ calls[2].result = [Active |-> EmptyMap, Visible |-> (NilLabel :> 1), All |-> EmptyMap]

\* ------------------------------------------------------------------------
\* C14, C15
\* ------------------------------------------------------------------------
\* the calls of NewAggTime that returned
AggCalls == { c \in Elements(calls) : c.fn = "NewAggTime" /\ c.result # Panic }

\* the sum of the counts of a Series
RECURSIVE SumOf(_)
SumOf(m) ==
    IF DOMAIN m = {} THEN 0
    ELSE LET l == CHOOSE x \in DOMAIN m : TRUE
         IN  m[l] + SumOf([x \in DOMAIN m \ {l} |-> m[x]])

\* every label a chart can hold
ChartLabels == KnownLabels \cup {NilLabel}

\* the snapshots whose Active id matches one of their windows
ActiveResolved == { n \in 1 .. Len(stream) : Resolves(stream[n], stream[n].Active) }

\* the (snapshot, position) pairs of the entries of Visible, and of Windows
VisibleEntries ==
    { <<n, k>> \in (1 .. Len(stream)) \X (1 .. Cardinality(IDs)) :
        k \in DOMAIN stream[n].Visible }

WindowEntries ==
    { <<n, k>> \in (1 .. Len(stream)) \X (1 .. Cardinality(IDs)) :
        k \in DOMAIN stream[n].Windows }

\* the window of an entry of Visible: nil when the id matches no window
VisibleWindow(e) ==
    IF Resolves(stream[e[1]], stream[e[1]].Visible[e[2]])
    THEN WindowWithID(stream[e[1]], stream[e[1]].Visible[e[2]])
    ELSE NilWindow

\* C14: after NewAggTime the Active chart's count of a label L is the number
\* of snapshots whose Active id matches a window with label L; a snapshot
\* whose Active id matches no window adds nothing, so that the counts sum to
\* the number of snapshots with a matching active window.
C14_ActiveCounts ==
    \A c \in AggCalls :
        /\ DOMAIN c.result.Active \subseteq ChartLabels
        /\ \A l \in ChartLabels :
              Count(c.result.Active, l) =
                  Cardinality({ n \in ActiveResolved : ActiveLabelAt(n, c.lf) = l })
        /\ SumOf(c.result.Active) = Cardinality(ActiveResolved)

\* C14, the case: two snapshots, the first with an active window, the second
\* with an Active id that matches no window; the Active chart counts one.
C14_Witness ==
    /\ Len(stream) = 2
    /\ ActiveResolved = {1}
    /\ \E c \in AggCalls :
          /\ c.lf = "appID"
          /\ c.result.Active = (ActiveLabelAt(1, "appID") :> 1)

\* C15: after NewAggTime the Visible chart's count of a label L is the
\* number of entries of the snapshots' Visible lists whose window has label
\* L, the All chart's count of L the number of entries of the snapshots'
\* Windows lists with label L, and each chart's counts sum to the number of
\* these entries.
C15_VisibleAndAllCounts ==
    \A c \in AggCalls :
        /\ DOMAIN c.result.Visible \subseteq ChartLabels
        /\ DOMAIN c.result.All \subseteq ChartLabels
        /\ \A l \in ChartLabels :
              /\ Count(c.result.Visible, l) =
                    Cardinality({ e \in VisibleEntries : labelOf(c.lf, VisibleWindow(e)) = l })
              /\ Count(c.result.All, l) =
                    Cardinality({ e \in WindowEntries :
                                    labelOf(c.lf, stream[e[1]].Windows[e[2]]) = l })
        /\ SumOf(c.result.Visible) = Cardinality(VisibleEntries)
        /\ SumOf(c.result.All) = Cardinality(WindowEntries)

\* C15, the case: two snapshots with both windows open and visible, counted
\* by raw Name: each label has count 2 in the Visible and in the All chart.
C15_Witness ==
    /\ Len(stream) = 2
    /\ \A n \in 1 .. 2 :
          /\ stream[n].Windows = <<Window1, Window2>>
          /\ stream[n].Visible = <<Window1.ID, Window2.ID>>
    /\ \E c \in AggCalls :
          /\ c.lf = "byName"
          /\ c.result.Visible = (NameA :> 2) @@ (NameB :> 2)
          /\ c.result.All = (NameA :> 2) @@ (NameB :> 2)

\* ------------------------------------------------------------------------
\* C16
\* ------------------------------------------------------------------------
BarLabels == { bars[k].Label : k \in DOMAIN bars }

\* C16: OrderedBars returns min(maxNumberOfBars, number of labels of the
\* Series) bars, each a label of the Series with its accumulated count, in
\* non-increasing order of count, and no label that is left out has a count
\* greater than the count of a label that is returned.
C16_TopBarsByCount ==
    bars # << >> =>
        /\ Len(bars) = IF maxNumberOfBars < Cardinality(DOMAIN series)
                       THEN maxNumberOfBars
                       ELSE Cardinality(DOMAIN series)
        /\ Cardinality(BarLabels) = Len(bars)
        /\ \A k \in DOMAIN bars :
              /\ bars[k].Label \in DOMAIN series
              /\ bars[k].Count = series[bars[k].Label]
        /\ \A k \in 1 .. Len(bars) - 1 : bars[k].Count >= bars[k + 1].Count
        /\ \A l \in DOMAIN series \ BarLabels :
              \A k \in DOMAIN bars : series[l] <= bars[k].Count

\* C16, the case: more labels than maxNumberOfBars, with different counts,
\* visited by range from the smallest count up; maxNumberOfBars bars come
\* back and the labels left out have the smallest counts.
C16_Witness ==
    /\ Cardinality(DOMAIN series) = maxNumberOfBars + MaxOver
    /\ \A k \in DOMAIN plusLog : plusLog[k].n = k
    /\ Len(bars) = maxNumberOfBars
    /\ bars[1].Label = UnaryLabel(maxNumberOfBars + MaxOver)
    /\ DOMAIN series \ BarLabels = { UnaryLabel(k) : k \in 1 .. MaxOver }

\* ------------------------------------------------------------------------
\* C17 .. C20
\* ------------------------------------------------------------------------
InfoReturned == winfo # NoWinfo

NumSegs == Len(segs)

FirstSeg == TrimSpace(segs[1])

LastSeg == TrimSpace(segs[NumSegs])

\* the segments from a to b, rejoined with " - "
Rejoined(a, b) == Join(SubSeq(segs, a, b), WindowTitleSeparator)

\* C17: Info returns a Winfo, without panic, for every Name: the empty one,
\* one without separator, and the one-segment Names "Google Chrome" and
\* "Slack" among them.
C17_InfoNeverFails ==
    InfoReturned =>
        /\ winfo # Panic
        /\ DOMAIN winfo = {"App", "SubApp", "Title"}

\* C17, the case: the Name "Google Chrome", of one segment; Info returns it
\* as the Title.
C17_Witness ==
    /\ InfoReturned
    /\ segs = <<GoogleChrome>>
    /\ winfo = Winfo(<< >>, << >>, GoogleChrome)

\* C18: for a Name of two or more segments whose last segment, trimmed, is
\* "Google Chrome", Info returns App "Google Chrome", SubApp the trimmed
\* second-to-last segment and Title the segments before it rejoined, also
\* when the first segment is "Slack".
C18_ChromeRule ==
    (InfoReturned /\ NumSegs >= 2 /\ LastSeg = GoogleChrome) =>
        winfo = Winfo(GoogleChrome,
                      TrimSpace(segs[NumSegs - 1]),
                      Rejoined(1, NumSegs - 2))

\* C18, the case: "Slack - a - Google Chrome".
C18_Witness ==
    /\ InfoReturned
    /\ segs = <<Slack, SegA, GoogleChrome>>
    /\ winfo = Winfo(GoogleChrome, SegA, Slack)

\* C19 as stated: for a Name of two or more segments whose first segment,
\* trimmed, is "Slack" and whose last, trimmed, is not "Google Chrome", Info
\* returns App "Slack", SubApp the segments after the first rejoined, and an
\* empty Title.
C19_SlackRuleRejoined ==
    (InfoReturned /\ NumSegs >= 2 /\ FirstSeg = Slack /\ LastSeg # GoogleChrome) =>
        winfo = Winfo(Slack, Rejoined(2, NumSegs), << >>)

\* C19, amended: the SubApp is the segments after the first rejoined, with
\* the white space at its two ends trimmed.
C19_SlackRuleTrimmed ==
    (InfoReturned /\ NumSegs >= 2 /\ FirstSeg = Slack /\ LastSeg # GoogleChrome) =>
        winfo = Winfo(Slack, TrimSpace(Rejoined(2, NumSegs)), << >>)

\* C19, the case: "Slack - a -  b ", whose SubApp is "a -  b".
C19_Witness ==
    /\ InfoReturned
    /\ segs = <<Slack, SegA, SegPadded>>
    /\ winfo = Winfo(Slack, SegA \o WindowTitleSeparator \o <<" ", "b">>, << >>)

\* C20: for a Name of two or more segments that matches neither the Google
\* Chrome rule nor the Slack rule, Info returns App the trimmed last
\* segment, Title the segments before it rejoined, and an empty SubApp.
C20_DefaultRule ==
    (InfoReturned /\ NumSegs >= 2 /\ FirstSeg # Slack /\ LastSeg # GoogleChrome) =>
        winfo = Winfo(LastSeg, << >>, Rejoined(1, NumSegs - 1))

\* C20, the case: "notes.txt - Vim".
C20_Witness ==
    /\ InfoReturned
    /\ segs = <<NotesTxt, Vim>>
    /\ winfo = Winfo(Vim, << >>, NotesTxt)

\* C21: for a Name of one segment, without the separator " - ", Info returns
\* the Name unchanged as the Title, with empty App and empty SubApp, also
\* when the Name is "Google Chrome" or "Slack".
C21_OneSegmentIsTitle ==
    (InfoReturned /\ NumSegs = 1) =>
        winfo = Winfo(<< >>, << >>, segs[1])

\* C21, the case: the Name "Slack", of one segment.
C21_Witness ==
    /\ InfoReturned
    /\ segs = <<Slack>>
    /\ winfo = Winfo(<< >>, << >>, Slack)

\* appID was called on the Window, and Info too
AppIDOfWindow == idCall.called /\ ~ idCall.nil /\ InfoReturned

\* C22: for a window that is not nil, appID returns the App of its Info when
\* that is not empty, otherwise the SubApp when that is not empty, otherwise
\* the Title when that is not empty, otherwise the raw Name; for a nil window
\* it returns "(nil)".
C22_AppIDPriority ==
    /\ AppIDOfWindow =>
           idCall.label = IF winfo.App # << >> THEN winfo.App
                          ELSE IF winfo.SubApp # << >> THEN winfo.SubApp
                          ELSE IF winfo.Title # << >> THEN winfo.Title
                          ELSE NameOf(segs)
    /\ (idCall.called /\ idCall.nil) => idCall.label = NilLabel

\* C22, the case: the Name " - ", of two empty segments: App, SubApp and
\* Title are empty and appID returns the raw Name.
C22_Witness ==
    /\ AppIDOfWindow
    /\ segs = << << >>, << >> >>
    /\ winfo = Winfo(<< >>, << >>, << >>)
    /\ idCall.label = WindowTitleSeparator

\* ------------------------------------------------------------------------
\* C23
\* ------------------------------------------------------------------------
\* some Visible id of the stream matches no window of its snapshot
SomeVisibleUnresolved ==
    \E e \in VisibleEntries : VisibleWindow(e) = NilWindow

\* the labels that the by-application timeline gave to the visible windows
TimelineVisibleLabels ==
    { tlCoarse.Rows.Visible[k].Label : k \in DOMAIN tlCoarse.Rows.Visible }

\* C23: within one run of Stats, a Visible id that matches no window of its
\* snapshot is given the same label by the by-application timeline and by
\* the aggregation: the Visible track and the Visible chart carry the same
\* labels.
C23_SameLabelForUnresolved ==
    (Done /\ SomeVisibleUnresolved) =>
        TimelineVisibleLabels = DOMAIN agg.Visible

\* ------------------------------------------------------------------------
\* C24, C30
\* ------------------------------------------------------------------------
\* every run so far was a run of thyme track -o file that returned no
\* error, and the file did not exist before the first
SuccessfulRunsFromNoFile ==
    /\ trackLog # << >>
    /\ trackLog[1].before = NoFile
    /\ \A k \in DOMAIN trackLog : trackLog[k].out = "file" /\ trackLog[k].err = "nil"

\* C24: after n successful runs of thyme track -o file, one after the other,
\* from a file that does not exist, the file holds a Stream of exactly the n
\* captured snapshots in the order of their capture; each run keeps the
\* stored snapshots in order and appends the new one.
C24_FileHoldsCapturesInOrder ==
    SuccessfulRunsFromNoFile =>
        /\ file = StreamFile([k \in DOMAIN trackLog |-> EncodeSnap(trackLog[k].snap)])
        /\ \A k \in DOMAIN trackLog :
              k > 1 => trackLog[k].after.text =
                           Append(trackLog[k].before.text, EncodeSnap(trackLog[k].snap))

\* C24, the case: three runs that captured different snapshots.
C24_Witness ==
    /\ SuccessfulRunsFromNoFile
    /\ Len(trackLog) = MaxRuns
    /\ trackLog[1].snap # trackLog[2].snap
    /\ trackLog[2].snap # trackLog[3].snap
    /\ Len(file.text) = MaxRuns
    /\ file.text[1] = EncodeSnap(trackLog[1].snap)

\* the errors of Execute of the capture, of opening the file and of decoding it
CaptureOrReadErrors == {"Snap", "Open", "Decode"}

\* C30: a run of Execute with an output file that returns an error of the
\* capture, of opening the file or of decoding it leaves the file as it was.
C30_FailedRunKeepsFile ==
    \A k \in DOMAIN trackLog :
        (trackLog[k].out = "file" /\ trackLog[k].err \in CaptureOrReadErrors) =>
            trackLog[k].after = trackLog[k].before

\* C30, the case: a run stored a snapshot, the capture of the next run
\* failed, and the file still holds the stored snapshot.
C30_Witness ==
    /\ Len(trackLog) >= 2
    /\ trackLog[1].out = "file" /\ trackLog[1].err = "nil"
    /\ trackLog[2].out = "file" /\ trackLog[2].err = "Snap"
    /\ trackLog[2].after = trackLog[1].after
    /\ Len(trackLog[2].after.text) = 1

\* ------------------------------------------------------------------------
\* C28
\* ------------------------------------------------------------------------
WatchReturned == watch.pc = "returned"

\* the track steps before the last one returned no error
OnlyLastStepMayFail ==
    \A k \in DOMAIN trackLog : k < Len(trackLog) => trackLog[k].err = "nil"

\* WatchCmd.Execute has returned exactly if its last track step failed,
\* and then with the error of that step; no step follows a failed one; it
\* slept its interval once after every step that succeeded and is over
WatchLoopSafe ==
    /\ OnlyLastStepMayFail
    /\ WatchReturned =>
          /\ trackLog # << >>
          /\ trackLog[Len(trackLog)].err # "nil"
          /\ watch.err = trackLog[Len(trackLog)].err
    /\ (trackLog # << >> /\ trackLog[Len(trackLog)].err # "nil") => WatchReturned
    /\ watch.pc = "track" => watch.slept = Len(trackLog) * watch.interval
    /\ watch.pc = "sleep" => watch.slept = (Len(trackLog) - 1) * watch.interval

\* C28: WatchCmd.Execute runs the track step, sleeps the interval and
\* repeats: it returns only when a track step fails, with the error of that
\* step, makes no track step after a failed one, and does not return while
\* the track steps succeed; as long as they succeed it goes on to the next
\* step (here up to MaxRuns steps).
C28_WatchLoop ==
    /\ []WatchLoopSafe
    /\ [](watch.pc \in {"track", "sleep"} =>
             <>(WatchReturned \/ Len(trackLog) = MaxRuns))

\* C28, the case: two track steps succeeded, each followed by a sleep, the
\* third failed in Snap and WatchCmd.Execute returned its error.
C28_Witness ==
    /\ WatchReturned
    /\ Len(trackLog) = 3
    /\ watch.err = "Snap"
    /\ watch.slept = 2 * watch.interval

\* ------------------------------------------------------------------------
\* C26, C29
\* ------------------------------------------------------------------------
\* the Ranges of a track that are open after snapshot i: for each label of
\* the snapshot, the last Range with that label appended so far
OpenAfter(track, i, lf) ==
    LET list == ListAfter(track, i, lf)
    IN  { k \in DOMAIN list :
            /\ list[k].Label \in LabelsAt(track, i, lf)
            /\ \A j \in DOMAIN list : list[j].Label = list[k].Label => j <= k }

\* C26: in the Visible and All tracks, a Range that is open after snapshot i
\* has its End set to the time of snapshot i+1 when snapshot i+1 is
\* processed; if its label is absent from snapshot i+1 it ends there and is
\* never extended again, and a Range open after the last snapshot ends at
\* the time of the last snapshot.
C26_OpenRangesExtendedThenClosed ==
    Done =>
        \A lf \in LabelFuncs, track \in Tracks, i \in 1 .. Len(stream) :
            \A k \in OpenAfter(track, i, lf) :
                LET final == TimelineOf(lf).Rows[track]
                    l     == final[k].Label
                IN  /\ i < Len(stream) =>
                          ListAfter(track, i + 1, lf)[k].End = TimeAt(i + 1)
                    /\ (i < Len(stream) /\ l \notin LabelsAt(track, i + 1, lf)) =>
                          final[k].End = TimeAt(i + 1)
                    /\ i = Len(stream) => final[k].End = TimeAt(i)

\* C26, the case: a window open in the first snapshot and gone in the
\* second and third, whose times differ; its Range ends at the time of the
\* second snapshot.
C26_Witness ==
    /\ Done
    /\ Len(stream) = 3
    /\ TimeAt(1) < TimeAt(2) /\ TimeAt(2) # TimeAt(3)
    /\ stream[1].Windows = <<Window1>>
    /\ stream[2].Windows = << >>
    /\ stream[3].Windows = << >>
    /\ tlFine.Rows.All = << [Label |-> NameA, Start |-> TimeAt(1), End |-> TimeAt(2)] >>

\* C29: for a stream with non-decreasing times, every label of the visible
\* (all-open) label set of a snapshot has, in the Visible (All) list that
\* NewTimeline returns, a Range with that label that covers the time of the
\* snapshot.
C29_ObservedLabelsCovered ==
    (Done /\ NonDecreasing) =>
        \A lf \in LabelFuncs, track \in Tracks, n \in 1 .. Len(stream) :
            \A l \in LabelsAt(track, n, lf) :
                \E r \in Elements(TimelineOf(lf).Rows[track]) :
                    r.Label = l /\ Covers(r, TimeAt(n))

\* C29, the case: two windows with different Names open and visible in two
\* snapshots at different times; each Name has a Range over both times.
C29_Witness ==
    /\ Done
    /\ Len(stream) = 2
    /\ TimeAt(1) < TimeAt(2)
    /\ \A n \in 1 .. 2 :
          /\ stream[n].Windows = <<Window1, Window2>>
          /\ stream[n].Visible = <<Window1.ID, Window2.ID>>
    /\ tlFine.Rows.All = << [Label |-> NameA, Start |-> TimeAt(1), End |-> TimeAt(2)],
                            [Label |-> NameB, Start |-> TimeAt(1), End |-> TimeAt(2)] >>
    /\ tlFine.Rows.Visible = tlFine.Rows.All

\* ------------------------------------------------------------------------
\* C27
\* ------------------------------------------------------------------------
\* the rectangle with corners (x, y) and (x + w, y + h) has a point in the
\* viewport [0, viewWidth) x [0, viewHeight)
Overlaps(c) ==
    /\ c.x < c.viewWidth /\ c.x + c.w >= 0
    /\ c.y < c.viewHeight /\ c.y + c.h >= 0

\* C27: isVisible returns true exactly when the window rectangle overlaps
\* the viewport, for all integers with w, h >= 0, a window that covers the
\* whole viewport with its four corners outside it included.
C27_VisibleIffOverlaps ==
    visCall.called => (visCall.result <=> Overlaps(visCall))

\* ------------------------------------------------------------------------
\* C25
\* ------------------------------------------------------------------------
SnapReturned == snapCall.called /\ ~ snapCall.result.err

\* C25: in every Snapshot that a tracker's Snap returns (Linux, Darwin,
\* Windows), each id of Visible is the ID of a window of Windows.
C25_VisibleAmongWindows ==
    SnapReturned =>
        \A v \in Elements(snapCall.result.snap.Visible) :
            Resolves(snapCall.result.snap, v)

====
